---- MODULE Spec2Model ----
(***************************************************************************)
(* A model of components of github.com/117503445/goutils:                 *)
(*   - the configuration resolver  loadConfig   (config.go)               *)
(*   - the DingTalk webhook client Robot.send   (package alert)           *)
(*   - the request URL and its signature        (package alert)           *)
(*   - the message builders                     (package alert)           *)
(*   - concurrent sends on one Robot            (package alert)           *)
(* Each component has its own specification (SpecConfig, SpecSend,         *)
(* SpecURL, SpecBuilder, SpecConcurrent); the variables of the other       *)
(* components stay at their idle values.                                   *)
(***************************************************************************)
EXTENDS Integers, Sequences, FiniteSets, TLC

VARIABLES
    \* ---- loadConfig -----------------------------------------------------
    cfgIsPtr,     \* whether the config argument is a pointer
    schema,       \* the struct type: its fields with koanf tag and kind
    config,       \* the struct the caller passed: field name -> value
    environ,      \* the process environment: variable name -> value or Unset
    systemArgs,   \* the argument list handed to loadConfig
    osArgs,       \* os.Args of the process
    fs,           \* the file system: absolute path -> entry
    cpc,          \* position of loadConfig
    f,            \* the pflag.FlagSet: flag name -> [kind, val, changed]
    parseErr,     \* the error f.Parse returned ("none" if nil)
    k,            \* the koanf store: key -> value or Absent
    cFiles,       \* the local cFiles
    fileIdx,      \* the index of the for loop over cFiles
    loaded,       \* the paths handed to file.Provider, in order
    exitCode,     \* the status the process exited with (-1 while running)
    exitReason,   \* which call ended the process
    \* ---- Robot.send -----------------------------------------------------
    retryCount,   \* Robot.retryCount, set once by NewRobot / WithRetry
    ctx,          \* the caller's context: "live", "canceled" or "deadline"
    spc,          \* position of send: "idle", "top", "wait", "inflight", "returned"
    attempt,      \* the loop variable of send
    lastErr,      \* the local lastErr of send
    sendResult,   \* the error value send returned (NoResult before it returns)
    httpLog,      \* the outcome of every finished doSend call, in order
    waits,        \* the backoff waits that elapsed, in units of retryInterval
    \* ---- buildRequestURL / calculateSign --------------------------------
    robots,       \* the Robot values NewRobot returned, by robot id
    clock,        \* time.Now().UnixMilli()
    urlLog,       \* every URL buildRequestURL returned: [r, url]
    signLog,      \* every calculateSign call: [r, secret, timestamp, sign]
    \* ---- message builders ----------------------------------------------
    builder,      \* the fields of the builder under construction
    calls,        \* the builder calls made so far, in order
    payload,      \* the JSON payload doSend marshalled for the builder
    \* ---- concurrent sends ----------------------------------------------
    client,       \* the Robot the goroutines share
    sends,        \* goroutine id -> the locals of its send call
    \* ---- GetGitRootDir -------------------------------------------------
    args0,        \* os.Args[0]
    gitDirs,      \* the directories that contain .git
    curDir,       \* the local dir of GetGitRootDir
    gitResult,    \* what GetGitRootDir returned: [done, dir, err]
    oddIter,      \* whether the loop has made an odd number of iterations
    \* ---- Exec ----------------------------------------------------------
    ExecOpt,      \* the package variable ExecOpt points to: [Cwd, ExecutedHandler]
    epc,          \* position of Exec: "idle", "ready", "running"
    execCalls,    \* every command Exec started: [opts, Dir, ExecutedHandler]
    res,          \* the ExecResult r of the running call: [Stdout, Stderr, Output]
    pending,      \* stream -> the chunks the command has still to write
    writers,      \* stream -> the copying goroutine's Write: [busy, p, loaded]
    \* ---- Extract -------------------------------------------------------
    dst,          \* the destination directory handed to Extract
    archive,      \* the entries of the tar stream: [name, type]
    entryIdx,     \* how many headers tarReader.Next() has returned
    extracted,    \* what Extract created or wrote: [entry, path]
    extractErr,    \* what Extract returned: "running", "nil" or the error
    \* ---- AtomicWriteFile -----------------------------------------------
    disk,         \* file name -> [exists, bytes], the files of the directory
    reader,       \* the chunks the reader has still to deliver
    apc,          \* where AtomicWriteFile is
    atomErr,      \* what AtomicWriteFile returned: "running", "nil", "error"
    atomCall,      \* the call: the target before it and all the reader holds
    \* ---- CopyFile, MoveFile --------------------------------------------
    files,        \* file name -> [exists, bytes, mode]
    cpCall,       \* the call: src, dst, CopyFile or MoveFile, the files before
    cppc,         \* where CopyFile or MoveFile is
    srcOff,       \* the read offset of srcFile
    copyErr       \* what the call returned: "running", "nil", "error"

sendVars == <<retryCount, ctx, spc, attempt, lastErr, sendResult, httpLog, waits>>

configVars == <<cfgIsPtr, schema, config, environ, systemArgs, osArgs, fs, cpc, f,
                parseErr, k, cFiles, fileIdx, loaded, exitCode, exitReason>>

urlVars == <<robots, clock, urlLog, signLog>>

builderVars == <<builder, calls, payload>>

concVars == <<client, sends>>

vars == <<cfgIsPtr, schema, config, environ, systemArgs, osArgs, fs, cpc, f,
          parseErr, k, cFiles, fileIdx, loaded, exitCode, exitReason,
          retryCount, ctx, spc, attempt, lastErr, sendResult, httpLog, waits,
          robots, clock, urlLog, signLog, builder, calls, payload, client, sends,
          args0, gitDirs, curDir, gitResult, oddIter,
          ExecOpt, epc, execCalls, res, pending, writers,
          dst, archive, entryIdx, extracted, extractErr,
          disk, reader, apc, atomErr, atomCall,
          files, cpCall, cppc, srcOff, copyErr>>

gitVars == <<args0, gitDirs, curDir, gitResult, oddIter>>

execVars == <<ExecOpt, epc, execCalls, res, pending, writers>>

\* the variables of the file and command helpers
extractVars == <<dst, archive, entryIdx, extracted, extractErr>>

atomVars == <<disk, reader, apc, atomErr, atomCall>>

copyVars == <<files, cpCall, cppc, srcOff, copyErr>>

toolVars == <<gitVars, execVars, extractVars, atomVars, copyVars>>

\* the variables of loadConfig and of package alert
appVars == <<configVars, sendVars, urlVars, builderVars, concVars>>

\* GetGitRootDir is not running.
GitIdle ==
    /\ args0 = <<>>
    /\ gitDirs = {}
    /\ curDir = <<>>
    /\ gitResult = <<>>
    /\ oddIter = FALSE

\* Exec has not been called.
ExecIdle ==
    /\ ExecOpt = <<>>
    /\ epc = "idle"
    /\ execCalls = <<>>
    /\ res = <<>>
    /\ pending = <<>>
    /\ writers = <<>>

\* Extract is not running.
ExtractIdle ==
    /\ dst = <<>>
    /\ archive = <<>>
    /\ entryIdx = 0
    /\ extracted = {}
    /\ extractErr = "idle"

\* AtomicWriteFile is not running.
AtomIdle ==
    /\ disk = <<>>
    /\ reader = <<>>
    /\ apc = "idle"
    /\ atomErr = "idle"
    /\ atomCall = <<>>

\* CopyFile and MoveFile are not running.
CopyIdle ==
    /\ files = <<>>
    /\ cpCall = <<>>
    /\ cppc = "idle"
    /\ srcOff = 0
    /\ copyErr = "idle"

\* No file or command helper is running.
ToolsIdle == GitIdle /\ ExecIdle /\ ExtractIdle /\ AtomIdle /\ CopyIdle

\* No Robot is being used for URL building.
URLIdle ==
    /\ robots = <<>>
    /\ clock = 0
    /\ urlLog = {}
    /\ signLog = {}

\* No builder is under construction.
BuilderIdle ==
    /\ builder = <<>>
    /\ calls = <<>>
    /\ payload = <<>>

\* No goroutine is sending.
ConcIdle ==
    /\ client = <<>>
    /\ sends = <<>>

(***************************************************************************)
(* Bounds                                                                  *)
(***************************************************************************)
MaxRetry == 3

\* how many negative retry counts are tried
NegRetry == 2


(***************************************************************************)
(* loadConfig: values                                                      *)
(***************************************************************************)
DEFAULT_CONFIG == "config.toml"

\* A value held by a struct field, a flag, an environment variable, a TOML
\* key or the koanf store: a string, an integer, a string slice, or nothing.
Val(t, str, n, l) == [t |-> t, s |-> str, n |-> n, l |-> l]

StrV(str) == Val("string", str, 0, <<>>)

IntV(n) == Val("int", "", n, <<>>)

ListV(l) == Val("slice", "", 0, l)

Absent == Val("absent", "", 0, <<>>)

Unset == "<unset>"

\* strconv.ParseInt succeeds on these strings.
IsNumeric(str) == str \in {"21", "40"}

\* strconv.ParseInt
StrToInt(str) == CASE str = "21" -> 21 [] str = "40" -> 40 [] OTHER -> 0

\* strconv.FormatInt; only the integers a TOML file of the model holds
IntToStr(n) == CASE n = 20 -> "20" [] n = 32 -> "32" [] OTHER -> "18"

\* strings.Split(s, ",") and the CSV split of a StringSlice flag value
SplitComma(str) ==
    CASE str = "config1.toml,config2.toml" -> <<"config1.toml", "config2.toml">>
      [] str = "config2.toml,config1.toml" -> <<"config2.toml", "config1.toml">>
      [] OTHER -> <<str>>

\* strings.ToUpper(field.Name)
ToUpper(name) == CASE name = "Name" -> "NAME" [] name = "Age" -> "AGE" [] OTHER -> "TAGS"

CoerceLoose(kind, v) ==
    IF kind = "int" /\ v.t = "string"
    THEN [ok |-> TRUE, v |-> IntV(StrToInt(v.s))]
    ELSE [ok |-> TRUE, v |-> v]

\* mapstructure decoding with WeaklyTypedInput, as k.Unmarshal configures it:
\* the value converted to the field's kind, or an error.
Coerce(kind, v) ==
    CASE kind = "string" /\ v.t = "string" -> [ok |-> TRUE, v |-> v]
      [] kind = "string" /\ v.t = "int" -> [ok |-> TRUE, v |-> StrV(IntToStr(v.n))]
      [] kind = "int" /\ v.t = "int" -> [ok |-> TRUE, v |-> v]
      [] kind = "int" /\ v.t = "string" ->
            IF IsNumeric(v.s) THEN [ok |-> TRUE, v |-> IntV(StrToInt(v.s))]
            ELSE [ok |-> FALSE, v |-> Absent]
      [] OTHER -> [ok |-> FALSE, v |-> Absent]

(***************************************************************************)
(* loadConfig: paths and the file system                                   *)
(***************************************************************************)
\* A path: absolute or not, and its elements.
Path(abs, parts) == [abs |-> abs, parts |-> parts]

\* The path a string of the model denotes.
ParsePath(str) ==
    IF str = "/etc/app.toml" THEN Path(TRUE, <<"etc", "app.toml">>)
    ELSE IF str = "" THEN Path(FALSE, <<>>)
    ELSE Path(FALSE, <<str>>)

\* path.IsAbs
IsAbs(p) == p.abs

\* path.Join(dir, p)
Join(dir, p) == Path(dir.abs, dir.parts \o p.parts)

\* os.Getwd()
workingDirectory == Path(TRUE, <<"work">>)

\* path.Dir(os.Executable())
executableDir == Path(TRUE, <<"bin">>)

\* A file system entry.
NoEntry == [type |-> "absent", parses |-> FALSE, data |-> [key \in {"name", "age", "config"} |-> Absent]]

DirEntry == [NoEntry EXCEPT !.type = "dir"]

BadToml == [NoEntry EXCEPT !.type = "file"]

\* A regular file holding TOML that defines name and/or age.
Toml(name, age) ==
    [type |-> "file", parses |-> TRUE,
     data |-> [key \in {"name", "age", "config"} |->
                  IF key = "name" THEN name ELSE IF key = "age" THEN age ELSE Absent]]

pathIsFileOrDir(p) ==
    LET q == IF IsAbs(p) THEN p ELSE Join(workingDirectory, p) IN
    /\ q \in DOMAIN fs
    /\ fs[q].type # "absent"

\* pathIsFile: os.Stat succeeds and the entry is not a directory.  A relative
\* path is looked up from the working directory.
pathIsFile(p) ==
    LET q == IF IsAbs(p) THEN p ELSE Join(workingDirectory, p) IN
    /\ q \in DOMAIN fs
    /\ fs[q].type = "file"

(***************************************************************************)
(* loadConfig: the flag set and f.Parse                                    *)
(***************************************************************************)
Keys == {"name", "age", "config"}

\* How pflag reads one argument: whether it is a long flag ("--x" or
\* "--x=v"), the flag's name, and the value after "=" if there is one.
Tok(str) ==
    CASE str = "--name" -> [long |-> TRUE, name |-> "name", inline |-> FALSE, val |-> ""]
      [] str = "--name=cli-name" -> [long |-> TRUE, name |-> "name", inline |-> TRUE, val |-> "cli-name"]
      [] str = "--age" -> [long |-> TRUE, name |-> "age", inline |-> FALSE, val |-> ""]
      [] str = "--age=40" -> [long |-> TRUE, name |-> "age", inline |-> TRUE, val |-> "40"]
      [] str = "--config" -> [long |-> TRUE, name |-> "config", inline |-> FALSE, val |-> ""]
      [] str = "--config=config1.toml" ->
            [long |-> TRUE, name |-> "config", inline |-> TRUE, val |-> "config1.toml"]
      [] str = "--bogus" -> [long |-> TRUE, name |-> "bogus", inline |-> FALSE, val |-> ""]
      [] str = "--help" -> [long |-> TRUE, name |-> "help", inline |-> FALSE, val |-> ""]
      [] OTHER -> [long |-> FALSE, name |-> "", inline |-> FALSE, val |-> ""]

\* A registered flag.
Flag(kind, val) == [kind |-> kind, val |-> val, changed |-> FALSE]

\* The kinds of field loadConfig registers a flag for.
Supported(kind) == kind \in {"string", "int", "bool", "float"}

\* The tags of the schema's fields.
Tags(sch) == {sch[i].tag : i \in 1 .. Len(sch)}

\* The field of the schema with the given tag.
FieldOf(sch, tag) == sch[CHOOSE i \in 1 .. Len(sch) : sch[i].tag = tag]

\* f.StringSlice("config", ...) and the f.String / f.Int64 calls of the loop.
RegisterFlags(sch, cfg) ==
    [name \in {"config"} \cup Tags(sch) |->
        IF name = "config" THEN Flag("stringSlice", ListV(<<DEFAULT_CONFIG>>))
        ELSE Flag(FieldOf(sch, name).kind, cfg[FieldOf(sch, name).name])]

\* flag.Value.Set(value) followed by flag.Changed = true; ok is FALSE when
\* the value does not parse as the flag's type.
SetFlag(flag, value) ==
    CASE flag.kind = "string" ->
            [ok |-> TRUE, flag |-> [flag EXCEPT !.val = StrV(value), !.changed = TRUE]]
      [] flag.kind = "int" ->
            IF IsNumeric(value)
            THEN [ok |-> TRUE, flag |-> [flag EXCEPT !.val = IntV(StrToInt(value)), !.changed = TRUE]]
            ELSE [ok |-> FALSE, flag |-> flag]
      [] OTHER ->
            [ok |-> TRUE,
             flag |-> [flag EXCEPT !.val = IF flag.changed
                                           THEN ListV(flag.val.l \o SplitComma(value))
                                           ELSE ListV(SplitComma(value)),
                                   !.changed = TRUE]]

RECURSIVE parseArgs(_, _)

\* FlagSet.parseArgs with parseLongArg: st is [f, err, help].  Parsing stops
\* at the first error; "--help" runs f.Usage.
parseArgs(args, st) ==
    IF args = <<>> THEN st
    ELSE LET str == Head(args)
             rest == Tail(args)
             t == Tok(str)
         IN  IF str = "--" THEN st
             ELSE IF ~t.long THEN parseArgs(rest, st)
             ELSE IF t.name \notin DOMAIN st.f
             THEN IF t.name = "help"
                  THEN [st EXCEPT !.help = TRUE]
                  ELSE [st EXCEPT !.err = "unknown flag"]
             ELSE IF ~t.inline /\ rest = <<>>
             THEN [st EXCEPT !.err = "flag needs an argument"]
             ELSE LET value == IF t.inline THEN t.val ELSE Head(rest)
                      after == IF t.inline THEN rest ELSE Tail(rest)
                      r == SetFlag(st.f[t.name], value)
                  IN  IF r.ok
                      THEN parseArgs(after, [st EXCEPT !.f[t.name] = r.flag])
                      ELSE [st EXCEPT !.err = "invalid argument"]

(***************************************************************************)
(* loadConfig: the layers                                                  *)
(***************************************************************************)
OverlayKeep(base, top) == [key \in Keys |-> IF base[key] # Absent THEN base[key] ELSE top[key]]

\* koanf.Load merges a provider's map into the store: every key the
\* provider defines replaces the stored value.
Overlay(base, top) == [key \in Keys |-> IF top[key] # Absent THEN top[key] ELSE base[key]]

\* structs.Provider(config, "koanf"): one key per field.
DefaultsLayer(sch, cfg) ==
    [key \in Keys |-> IF key \in Tags(sch) THEN cfg[FieldOf(sch, key).name] ELSE Absent]

\* The map envToKey built by the field loop.
envToKey(sch) ==
    [name \in {"CONFIG"} \cup {ToUpper(sch[i].name) : i \in 1 .. Len(sch)} |->
        IF \E i \in 1 .. Len(sch) : ToUpper(sch[i].name) = name
        THEN sch[CHOOSE i \in 1 .. Len(sch) : ToUpper(sch[i].name) = name].tag
        ELSE "config"]

\* env.Provider with the callback that maps a variable to its key.
EnvLayer(sch, env) ==
    [key \in Keys |->
        IF \E name \in DOMAIN envToKey(sch) :
              /\ name \in DOMAIN env
              /\ envToKey(sch)[name] = key
              /\ env[name] # Unset
        THEN StrV(env[CHOOSE name \in DOMAIN envToKey(sch) :
                        /\ name \in DOMAIN env
                        /\ envToKey(sch)[name] = key
                        /\ env[name] # Unset])
        ELSE Absent]

posflagReadAll(flags, store) == [key \in Keys |-> IF key \in DOMAIN flags THEN flags[key].val ELSE Absent]

\* posflag.Provider(f, ".", k).Read(): a flag that was not changed is left
\* out when the store already has its key.
posflagRead(flags, store) ==
    [key \in Keys |->
        IF key \in DOMAIN flags /\ (flags[key].changed \/ store[key] = Absent)
        THEN flags[key].val
        ELSE Absent]

\* The loop over os.Args that sets cFilesWithCli.
cFilesWithCli(args) == \E i \in 1 .. Len(args) : args[i] = "--config"

selectFilesFlagOnly(flagFiles, withCli, kcfg) == flagFiles

\* The choice of cFiles: the flag's value, replaced by the split "config"
\* key of the store when --config was not seen and the key is present.
selectFiles(flagFiles, withCli, kcfg) ==
    IF ~withCli /\ kcfg # Absent THEN SplitComma(kcfg.s) ELSE flagFiles

\* The path the loop body ends up with for the candidate c.
resolve(c) ==
    IF IsAbs(c) THEN c
    ELSE LET c1 == IF pathIsFile(Join(workingDirectory, c)) THEN Join(workingDirectory, c) ELSE c
             c2 == IF pathIsFile(Join(executableDir, c1)) THEN Join(executableDir, c1) ELSE c1
         IN  c2

(***************************************************************************)
(* loadConfig: inputs                                                      *)
(***************************************************************************)
\* type Config struct { Name string `koanf:"name"`; Age int `koanf:"age"` }
GoodSchema ==
    <<[name |-> "Name", tag |-> "name", kind |-> "string"],
      [name |-> "Age", tag |-> "age", kind |-> "int"]>>

\* Struct types loadConfig rejects: a field without koanf tag, a field
\* tagged "config", a field of a kind without a flag type.
BadSchemas ==
    {<<GoodSchema[1], [name |-> "Age", tag |-> "", kind |-> "int"]>>,
     <<[name |-> "Name", tag |-> "config", kind |-> "string"], GoodSchema[2]>>,
     <<GoodSchema[1], [name |-> "Tags", tag |-> "tags", kind |-> "slice"]>>}

\* &Config{Name: "default-name", Age: 18}
DefaultConfig(sch) ==
    [name \in {sch[i].name : i \in 1 .. Len(sch)} |->
        IF name = "Name" THEN StrV("default-name")
        ELSE IF name = "Age" THEN IntV(18)
        ELSE ListV(<<>>)]

EnvNames == {"NAME", "AGE", "CONFIG"}

NoEnv == [name \in EnvNames |-> Unset]

Environs ==
    {[name \in EnvNames |->
        IF name = "NAME" THEN n ELSE IF name = "AGE" THEN a ELSE c] :
        n \in {Unset, "env-name"},
        a \in {Unset, "21", "abc"},
        c \in {Unset, "config1.toml", "config1.toml,config2.toml"}}

ArgLists ==
    {<<>>,
     <<"--name", "cli-name">>,
     <<"--name=cli-name">>,
     <<"--age", "40">>,
     <<"--name", "cli-name", "--age=40">>,
     <<"--config", "config1.toml">>,
     <<"--config=config1.toml">>,
     <<"--config", "config2.toml,config1.toml">>,
     <<"--config", "config1.toml", "--config", "config2.toml">>,
     <<"--config", "/etc/app.toml", "--name", "cli-name">>,
     <<"--bogus">>,
     <<"--name", "cli-name", "--bogus">>,
     <<"--bogus", "--name", "cli-name">>,
     <<"--age", "abc">>,
     <<"--name">>,
     <<"--name", "--config">>,
     <<"--help">>}

ConfigToml == Join(workingDirectory, Path(FALSE, <<"config.toml">>))

Config1Toml == Join(workingDirectory, Path(FALSE, <<"config1.toml">>))

Config2Toml == Join(workingDirectory, Path(FALSE, <<"config2.toml">>))

ExeConfig1Toml == Join(executableDir, Path(FALSE, <<"config1.toml">>))

EtcAppToml == Path(TRUE, <<"etc", "app.toml">>)

\* path.Join(path.Dir(executablePath), c) once c is the working directory's
\* config1.toml: a file below the executable's directory
ExeWorkConfig1Toml == Join(executableDir, Config1Toml)

Locations == {ConfigToml, Config1Toml, Config2Toml, ExeConfig1Toml, EtcAppToml,
              ExeWorkConfig1Toml}

\* The file systems loadConfig is run on.
FileSystems ==
    {[loc \in Locations |->
        IF loc = ConfigToml THEN c0
        ELSE IF loc = Config1Toml THEN c1
        ELSE IF loc = Config2Toml THEN c2
        ELSE IF loc = ExeConfig1Toml THEN e1
        ELSE IF loc = ExeWorkConfig1Toml THEN n1
        ELSE Toml(StrV("etc-name"), Absent)] :
        c0 \in {NoEntry, DirEntry, BadToml, Toml(StrV("config-name"), IntV(20))},
        c1 \in {NoEntry, Toml(StrV("c1-name"), Absent)},
        c2 \in {NoEntry, Toml(StrV("c2-name"), IntV(32))},
        e1 \in {NoEntry, Toml(StrV("exe-c1-name"), Absent)},
        n1 \in {NoEntry, Toml(StrV("exe-work-c1-name"), Absent)}}

NoFiles == [loc \in Locations |-> NoEntry]

(***************************************************************************)
(* loadConfig: the steps                                                   *)
(***************************************************************************)
\* loadConfig(config, systemArgs) has been called: from LoadConfig, with
\* os.Args[1:], or from a test, with the test binary's os.Args.
ConfigStart ==
    /\ \/ /\ cfgIsPtr = TRUE
          /\ schema = GoodSchema
          /\ environ \in Environs
          /\ systemArgs \in ArgLists
          /\ osArgs \in {<<"app">> \o systemArgs, <<"goutils.test">>}
          /\ fs \in FileSystems
       \/ /\ \/ cfgIsPtr = FALSE /\ schema = GoodSchema
             \/ cfgIsPtr = TRUE /\ schema \in BadSchemas
          /\ environ = NoEnv
          /\ systemArgs = <<>>
          /\ osArgs = <<"app">>
          /\ fs = NoFiles
    /\ config = DefaultConfig(schema)
    /\ cpc = "reflect"
    /\ f = <<>>
    /\ parseErr = "none"
    /\ k = [key \in Keys |-> Absent]
    /\ cFiles = <<>>
    /\ fileIdx = 1
    /\ loaded = <<>>
    /\ exitCode = -1
    /\ exitReason = "none"

\* os.Exit(code), reached through log.Fatal or f.Usage.
Exit(code, reason) ==
    /\ cpc' = "exited"
    /\ exitCode' = code
    /\ exitReason' = reason

\* The first field, in declaration order, the field loop stops at.
FirstBadField(sch) ==
    CHOOSE i \in 1 .. Len(sch) :
        /\ sch[i].tag \in {"", "config"} \/ ~Supported(sch[i].kind)
        /\ \A j \in 1 .. i - 1 : sch[j].tag \notin {"", "config"} /\ Supported(sch[j].kind)

\* The pointer check, the field loop and the load of the struct defaults.
Reflect ==
    /\ cpc = "reflect"
    /\ IF ~cfgIsPtr
       THEN /\ Exit(1, "config must be a pointer")
            /\ UNCHANGED <<f, k>>
       ELSE IF \E i \in 1 .. Len(schema) :
                  schema[i].tag \in {"", "config"} \/ ~Supported(schema[i].kind)
       THEN /\ LET fld == schema[FirstBadField(schema)] IN
                  Exit(1, IF fld.tag = "" THEN "missing koanf tag"
                          ELSE IF fld.tag = "config" THEN "koanf tag can not be 'config'"
                          ELSE "unsupported type")
            /\ UNCHANGED <<f, k>>
       ELSE /\ f' = RegisterFlags(schema, config)
            /\ k' = Overlay(k, DefaultsLayer(schema, config))
            /\ cpc' = "env"
            /\ UNCHANGED <<exitCode, exitReason>>
    /\ UNCHANGED <<cfgIsPtr, schema, config, environ, systemArgs, osArgs, fs,
                   parseErr, cFiles, fileIdx, loaded>>
    /\ UNCHANGED <<sendVars, urlVars, builderVars, concVars, toolVars>>

\* k.Load(env.Provider(...))
LoadEnv ==
    /\ cpc = "env"
    /\ k' = Overlay(k, EnvLayer(schema, environ))
    /\ cpc' = "parse"
    /\ UNCHANGED <<cfgIsPtr, schema, config, environ, systemArgs, osArgs, fs, f,
                   parseErr, cFiles, fileIdx, loaded, exitCode, exitReason>>
    /\ UNCHANGED <<sendVars, urlVars, builderVars, concVars, toolVars>>

\* f.Parse(systemArgs): the flag set has ContinueOnError, so a parse error
\* is returned (and dropped by loadConfig); "--help" runs f.Usage, which
\* exits with status 0.
ParseFlags ==
    /\ cpc = "parse"
    /\ LET st == parseArgs(systemArgs, [f |-> f, err |-> "none", help |-> FALSE]) IN
          /\ f' = st.f
          /\ parseErr' = st.err
          /\ IF st.help
             THEN Exit(0, "usage")
             ELSE /\ cpc' = "select"
                  /\ UNCHANGED <<exitCode, exitReason>>
    /\ UNCHANGED <<cfgIsPtr, schema, config, environ, systemArgs, osArgs, fs,
                   k, cFiles, fileIdx, loaded>>
    /\ UNCHANGED <<sendVars, urlVars, builderVars, concVars, toolVars>>

\* f.GetStringSlice("config") and the choice between flag, env and default.
SelectFiles ==
    /\ cpc = "select"
    /\ cFiles' = selectFiles(f["config"].val.l, cFilesWithCli(osArgs), k["config"])
    /\ fileIdx' = 1
    /\ cpc' = "files"
    /\ UNCHANGED <<cfgIsPtr, schema, config, environ, systemArgs, osArgs, fs, f,
                   parseErr, k, loaded, exitCode, exitReason>>
    /\ UNCHANGED <<sendVars, urlVars, builderVars, concVars, toolVars>>

\* One iteration of the loop over cFiles.
LoadFile ==
    /\ cpc = "files"
    /\ fileIdx <= Len(cFiles)
    /\ LET c == resolve(ParsePath(cFiles[fileIdx])) IN
          IF ~pathIsFile(c)
          THEN /\ fileIdx' = fileIdx + 1
               /\ UNCHANGED <<cpc, k, loaded, exitCode, exitReason>>
          ELSE /\ loaded' = Append(loaded, c)
               /\ IF ~fs[c].parses
                  THEN /\ Exit(1, "error loading file")
                       /\ UNCHANGED <<k, fileIdx>>
                  ELSE /\ k' = Overlay(k, fs[c].data)
                       /\ fileIdx' = fileIdx + 1
                       /\ UNCHANGED <<cpc, exitCode, exitReason>>
    /\ UNCHANGED <<cfgIsPtr, schema, config, environ, systemArgs, osArgs, fs, f,
                   parseErr, cFiles>>
    /\ UNCHANGED <<sendVars, urlVars, builderVars, concVars, toolVars>>

\* k.Load(posflag.Provider(f, ".", k)), once the loop is over.
LoadCli ==
    /\ cpc = "files"
    /\ fileIdx > Len(cFiles)
    /\ k' = Overlay(k, posflagRead(f, k))
    /\ cpc' = "unmarshal"
    /\ UNCHANGED <<cfgIsPtr, schema, config, environ, systemArgs, osArgs, fs, f,
                   parseErr, cFiles, fileIdx, loaded, exitCode, exitReason>>
    /\ UNCHANGED <<sendVars, urlVars, builderVars, concVars, toolVars>>

\* k.Unmarshal("", config)
Unmarshal ==
    /\ cpc = "unmarshal"
    /\ IF \E i \in 1 .. Len(schema) : ~Coerce(schema[i].kind, k[schema[i].tag]).ok
       THEN /\ Exit(1, "error unmarshaling config")
            /\ UNCHANGED config
       ELSE /\ config' = [name \in DOMAIN config |->
                            LET fld == schema[CHOOSE i \in 1 .. Len(schema) : schema[i].name = name]
                            IN  Coerce(fld.kind, k[fld.tag]).v]
            /\ cpc' = "done"
            /\ UNCHANGED <<exitCode, exitReason>>
    /\ UNCHANGED <<cfgIsPtr, schema, environ, systemArgs, osArgs, fs, f,
                   parseErr, k, cFiles, fileIdx, loaded>>
    /\ UNCHANGED <<sendVars, urlVars, builderVars, concVars, toolVars>>

NextConfig ==
    \/ Reflect
    \/ LoadEnv
    \/ ParseFlags
    \/ SelectFiles
    \/ LoadFile
    \/ LoadCli
    \/ Unmarshal

(***************************************************************************)
(* loadConfig: properties                                                  *)
(***************************************************************************)
Done == cpc = "done"

\* loadConfig has chosen cFiles.
Selected ==
    \/ cpc \in {"files", "unmarshal", "done"}
    \/ cpc = "exited" /\ exitReason \in {"error loading file", "error unmarshaling config"}

\* The layers that define the field's key.
CliDefines(fld) == f[fld.tag].changed

FileDefines(fld) == \E i \in 1 .. Len(loaded) : fs[loaded[i]].data[fld.tag] # Absent

EnvDefines(fld) == environ[ToUpper(fld.name)] # Unset

\* The last loaded file that defines the field's key.
LastFileDefining(fld) ==
    loaded[CHOOSE i \in 1 .. Len(loaded) :
              /\ fs[loaded[i]].data[fld.tag] # Absent
              /\ \A j \in i + 1 .. Len(loaded) : fs[loaded[j]].data[fld.tag] = Absent]

\* The value of the highest-precedence layer that defines the field, as that
\* layer gives it (an environment value is a string).
WinningValue(fld) ==
    IF CliDefines(fld) THEN f[fld.tag].val
    ELSE IF FileDefines(fld) THEN fs[LastFileDefining(fld)].data[fld.tag]
    ELSE IF EnvDefines(fld) THEN StrV(environ[ToUpper(fld.name)])
    ELSE DefaultConfig(schema)[fld.name]

\* The same value as a value of the field's type.
Typed(fld, v) ==
    IF fld.kind = "int" /\ v.t = "string" THEN IntV(StrToInt(v.s)) ELSE v

\* C1: when loadConfig returns, every field holds the value of the
\* highest-precedence layer that defines it: command line, else config
\* file, else environment, else the struct default.
C1_Precedence ==
    Done => \A i \in 1 .. Len(schema) :
                config[schema[i].name] = Typed(schema[i], WinningValue(schema[i]))

\* All four layers define Name, and the command line wins.
C1_Witness ==
    /\ Done
    /\ CliDefines(GoodSchema[1])
    /\ FileDefines(GoodSchema[1])
    /\ EnvDefines(GoodSchema[1])
    /\ config["Name"] = StrV("cli-name")
    /\ config["Age"] = IntV(20)

\* C2: the overlay of the flag set after the files leaves the stored value
\* of every key whose flag was not supplied untouched.
C2_DefaultFlagsDoNotClobber ==
    [][(cpc = "files" /\ cpc' = "unmarshal") =>
          \A tag \in Tags(schema) : ~f[tag].changed => k'[tag] = k[tag]]_vars

\* The overlay has run, the name flag was not supplied, and the stored name
\* is a file's value, not the flag's default.
C2_Witness ==
    /\ cpc = "unmarshal"
    /\ ~f["name"].changed
    /\ k["name"] = StrV("config-name")
    /\ f["name"].val = StrV("default-name")
    /\ f["age"].changed

\* C3: when the parsed argument list sets the config flag, cFiles is the
\* flag's value, whatever the environment variable CONFIG holds.
C3_CliConfigWins ==
    (Selected /\ f["config"].changed) => cFiles = f["config"].val.l

\* No argument of the process or of the call names the config flag.
NoConfigArg ==
    /\ \A i \in 1 .. Len(systemArgs) : Tok(systemArgs[i]).name # "config"
    /\ \A i \in 1 .. Len(osArgs) : Tok(osArgs[i]).name # "config"

\* The path is a regular file.
IsRegular(q) == q \in DOMAIN fs /\ fs[q].type = "file"

\* The places a file named by the relative candidate c is taken from.
PlacesOf(c) ==
    {Join(workingDirectory, c), Join(executableDir, c),
     Join(executableDir, Join(workingDirectory, c))}

\* C4: when --config is not passed and CONFIG is set, the candidates are the
\* files CONFIG names: only those are loaded, each of them that exists in
\* the working directory is loaded from one of its places, and config.toml
\* is not.
C4_EnvConfigSelectsFiles ==
    (Selected /\ NoConfigArg /\ environ["CONFIG"] # Unset) =>
        LET names == SplitComma(environ["CONFIG"]) IN
        /\ cFiles = names
        /\ \A i \in 1 .. Len(loaded) :
              /\ loaded[i] # ConfigToml
              /\ \E j \in 1 .. Len(names) : loaded[i] \in PlacesOf(ParsePath(names[j]))
        /\ Done => \A j \in 1 .. Len(names) :
                      IsRegular(Join(workingDirectory, ParsePath(names[j]))) =>
                          \E i \in 1 .. Len(loaded) :
                              loaded[i] \in PlacesOf(ParsePath(names[j]))

\* CONFIG names config1.toml, both it and config.toml exist, and only
\* config1.toml was loaded.
C4_Witness ==
    /\ Done
    /\ NoConfigArg
    /\ environ["CONFIG"] = "config1.toml"
    /\ IsRegular(ConfigToml)
    /\ loaded = <<Config1Toml>>
    /\ config["Name"] = StrV("c1-name")

\* No candidate path is a regular file, in the working directory or in the
\* executable's directory.
NoCandidateIsFile ==
    \A i \in 1 .. Len(cFiles) :
        LET c == ParsePath(cFiles[i]) IN
        IF IsAbs(c) THEN ~IsRegular(c)
        ELSE /\ ~IsRegular(Join(workingDirectory, c))
             /\ ~IsRegular(Join(executableDir, c))

\* C5: when no candidate config path is a regular file, loadConfig loads
\* nothing and does not terminate over it: it can always take its next
\* step, the only exit left is the unmarshal of a malformed environment
\* value, and on return every field holds the supplied flag, else the
\* environment value, else the default.
C5_MissingFilesTolerated ==
    (Selected /\ NoCandidateIsFile) =>
        /\ loaded = <<>>
        /\ cpc \in {"files", "unmarshal"} => ENABLED NextConfig
        /\ cpc = "exited" =>
              /\ exitReason = "error unmarshaling config"
              /\ \E i \in 1 .. Len(schema) :
                    /\ ~CliDefines(schema[i])
                    /\ EnvDefines(schema[i])
                    /\ ~Coerce(schema[i].kind, StrV(environ[ToUpper(schema[i].name)])).ok
        /\ Done => \A i \in 1 .. Len(schema) :
                      config[schema[i].name] =
                          IF CliDefines(schema[i]) THEN f[schema[i].tag].val
                          ELSE IF EnvDefines(schema[i])
                          THEN Typed(schema[i], StrV(environ[ToUpper(schema[i].name)]))
                          ELSE DefaultConfig(schema)[schema[i].name]

\* config.toml is a directory, nothing is loaded, and loadConfig returns
\* with the environment's name, the flag's age.
C5_Witness ==
    /\ Done
    /\ cFiles = <<DEFAULT_CONFIG>>
    /\ fs[ConfigToml].type = "dir"
    /\ NoCandidateIsFile
    /\ config["Name"] = StrV("env-name")
    /\ config["Age"] = IntV(40)

\* C6: when f.Parse fails on an unknown flag or a malformed value, the
\* process has exited: loadConfig never goes on to select and load files.
C6_ParseErrorExits ==
    parseErr # "none" => (cpc = "exited" /\ loaded = <<>>)

\* An existing candidate file that is not parseable TOML.
UnparseableCandidate ==
    \E i \in 1 .. Len(cFiles) :
        LET c == ParsePath(cFiles[i])
            inWd == Join(workingDirectory, c)
            inExe == Join(executableDir, c)
        IN  IF IsAbs(c) THEN IsRegular(c) /\ ~fs[c].parses
            ELSE IF IsRegular(inWd) THEN ~fs[inWd].parses
            ELSE IsRegular(inExe) /\ ~fs[inExe].parses

\* The value a field would get does not convert to the field's type.
TypeMismatch ==
    \E i \in 1 .. Len(schema) :
        LET v == WinningValue(schema[i]) IN
        \/ schema[i].kind = "int" /\ v.t = "string" /\ ~IsNumeric(v.s)
        \/ schema[i].kind = "int" /\ v.t \notin {"int", "string"}
        \/ schema[i].kind = "string" /\ v.t \notin {"int", "string"}

\* C7: loadConfig returns only if the config argument is a pointer, every
\* field has a koanf tag other than "config" and a supported type, every
\* existing candidate file is parseable TOML and every merged value
\* converts to its field's type; each of these errors ends the process with
\* status 1.
C7_ReturnsOnlyWithoutStructuralError ==
    /\ Done =>
          /\ cfgIsPtr
          /\ \A i \in 1 .. Len(schema) :
                schema[i].tag \notin {"", "config"} /\ Supported(schema[i].kind)
          /\ ~UnparseableCandidate
          /\ ~TypeMismatch
    /\ (cpc = "exited" /\ exitReason # "usage") => exitCode = 1

\* The environment's AGE is not a number: the unmarshal ends the process.
C7_Witness ==
    /\ cpc = "exited"
    /\ exitCode = 1
    /\ exitReason = "error unmarshaling config"
    /\ environ["AGE"] = "abc"

(***************************************************************************)
(* Robot.send: error values                                                *)
(***************************************************************************)
DefaultRetryCount == 3

\* An error value.  kind: "nil" (no error), "Error" (the *Error API error),
\* "transport" (an fmt.Errorf built by doSend), "ctx" (ctx.Err()),
\* "exhausted" (the fmt.Errorf of the last line of send, wrapping lastErr).
MkErr(kind, code, cause, count, lastKind) ==
    [kind |-> kind, code |-> code, cause |-> cause, count |-> count, lastKind |-> lastKind]

NilErr == MkErr("nil", 0, "none", 0, "none")

NoResult == MkErr("pending", 0, "none", 0, "none")

\* &Error{Code: result.ErrCode, Message: result.ErrMsg}
ApiError(code) == MkErr("Error", code, "errcode", 0, "none")

\* fmt.Errorf("...: %w", err) inside doSend
TransportErr(cause) == MkErr("transport", 0, cause, 0, "none")

\* ctx.Err()
CtxErr == MkErr("ctx", 0, ctx, 0, "none")

ExhaustedErrUnwrapped(count, last) == MkErr("exhausted", 0, "none", count, "nil")

\* fmt.Errorf("... %d ...: %w", r.retryCount, lastErr)
ExhaustedErr(count, last) == MkErr("exhausted", last.code, last.cause, count, last.kind)

IsErrorNever(err) == FALSE

\* IsError: the type assertion err.(*Error)
IsError(err) == err.kind = "Error"

(***************************************************************************)
(* Robot.doSend: one HTTP attempt                                          *)
(***************************************************************************)
StatusOK == 200

Statuses == {StatusOK, 204, 500}

\* The errcode values a response body carries (0 is success).
ErrCodes == {0, 400101}

\* A response body: JSON carrying errcode, or bytes json.Unmarshal rejects.
Bodies == [parses : {TRUE}, errcode : ErrCodes] \cup {[parses |-> FALSE, errcode |-> 0]}

\* What the transport does with one request: httpClient.Do fails ("do"),
\* reading the body fails ("read"), or a response arrives ("none").
Outcomes ==
    {[fail |-> "do", status |-> 0, body |-> [parses |-> FALSE, errcode |-> 0]],
     [fail |-> "read", status |-> 0, body |-> [parses |-> FALSE, errcode |-> 0]]}
    \cup [fail : {"none"}, status : Statuses, body : Bodies]

\* The outcome of a request whose context ended while it was in flight:
\* httpClient.Do returns an error wrapping ctx.Err().
CtxOutcome == [fail |-> ctx, status |-> 0, body |-> [parses |-> FALSE, errcode |-> 0]]

\* The error doSend returns for an outcome.
doSend(o) ==
    IF o.fail \in {"do", "canceled", "deadline"} THEN TransportErr(o.fail)
    ELSE IF o.fail = "read" THEN TransportErr("read")
    ELSE IF o.status # StatusOK THEN MkErr("transport", o.status, "status", 0, "none")
    ELSE IF ~o.body.parses THEN TransportErr("decode")
    ELSE IF o.body.errcode # 0 THEN ApiError(o.body.errcode)
    ELSE NilErr

(***************************************************************************)
(* Robot.send: the retry loop                                              *)
(***************************************************************************)
RetryCounts == {DefaultRetryCount} \cup ((0 - NegRetry) .. MaxRetry)

LoopCondLt(a, rc) == a < rc

LoopCondExtra(a, rc) == a <= rc + 1

\* The loop condition of send: attempt <= r.retryCount
LoopCond(a, rc) == a <= rc

ConfigIdle ==
    /\ cfgIsPtr = TRUE
    /\ schema = <<>>
    /\ config = <<>>
    /\ environ = <<>>
    /\ systemArgs = <<>>
    /\ osArgs = <<>>
    /\ fs = <<>>
    /\ cpc = "idle"
    /\ f = <<>>
    /\ parseErr = "none"
    /\ k = <<>>
    /\ cFiles = <<>>
    /\ fileIdx = 1
    /\ loaded = <<>>
    /\ exitCode = -1
    /\ exitReason = "none"

\* NewRobot(WithRetry(n)) has run and send(ctx, message) has been called.
InitSend ==
    /\ ConfigIdle
    /\ ToolsIdle
    /\ URLIdle
    /\ BuilderIdle
    /\ ConcIdle
    /\ retryCount \in RetryCounts
    /\ ctx \in {"live", "canceled", "deadline"}
    /\ spc = "top"
    /\ attempt = 0
    /\ lastErr = NilErr
    /\ sendResult = NoResult
    /\ httpLog = <<>>
    /\ waits = <<>>

Return(err) ==
    /\ spc' = "returned"
    /\ sendResult' = err

\* The loop condition and the first select of an iteration.
SendTop ==
    /\ spc = "top"
    /\ IF ~LoopCond(attempt, retryCount)
       THEN /\ Return(ExhaustedErr(retryCount, lastErr))
            /\ UNCHANGED <<attempt, lastErr>>
       ELSE IF ctx # "live"
       THEN /\ Return(CtxErr)
            /\ UNCHANGED <<attempt, lastErr>>
       ELSE /\ spc' = IF attempt > 0 THEN "wait" ELSE "inflight"
            /\ UNCHANGED <<sendResult, attempt, lastErr>>
    /\ UNCHANGED <<retryCount, ctx, httpLog, waits>>
    /\ UNCHANGED <<configVars, urlVars, builderVars, concVars, toolVars>>

backoffConstant(a) == 1

\* time.Duration(attempt) * r.retryInterval, in units of retryInterval
backoff(a) == a

\* The second select: time.After(attempt * retryInterval) fires.
SendWaitElapsed ==
    /\ spc = "wait"
    /\ waits' = Append(waits, backoff(attempt))
    /\ spc' = "inflight"
    /\ UNCHANGED <<retryCount, ctx, attempt, lastErr, sendResult, httpLog>>
    /\ UNCHANGED <<configVars, urlVars, builderVars, concVars, toolVars>>

\* The second select: ctx.Done() is ready.
SendWaitCancelled ==
    /\ spc = "wait"
    /\ ctx # "live"
    /\ Return(CtxErr)
    /\ UNCHANGED <<retryCount, ctx, attempt, lastErr, httpLog, waits>>
    /\ UNCHANGED <<configVars, urlVars, builderVars, concVars, toolVars>>

\* doSend returned err: the body of the if/else after the call.
AfterDoSend(o) ==
    LET err == doSend(o) IN
    /\ httpLog' = Append(httpLog, o)
    /\ IF err = NilErr
       THEN /\ Return(NilErr)
            /\ UNCHANGED <<attempt, lastErr>>
       ELSE /\ lastErr' = err
            /\ IF IsError(err)
               THEN /\ Return(err)
                    /\ UNCHANGED attempt
               ELSE /\ attempt' = attempt + 1
                    /\ spc' = "top"
                    /\ UNCHANGED sendResult
    /\ UNCHANGED <<retryCount, ctx, waits>>
    /\ UNCHANGED <<configVars, urlVars, builderVars, concVars, toolVars>>

\* The request of this attempt completes with some outcome.
SendAttempt ==
    /\ spc = "inflight"
    /\ \E o \in Outcomes : AfterDoSend(o)

\* The context ends while the request is in flight.
SendAttemptCancelled ==
    /\ spc = "inflight"
    /\ ctx # "live"
    /\ AfterDoSend(CtxOutcome)

\* The caller cancels the context, or its deadline passes.
CtxDone ==
    /\ spc \in {"top", "wait", "inflight"}
    /\ ctx = "live"
    /\ ctx' \in {"canceled", "deadline"}
    /\ UNCHANGED <<retryCount, spc, attempt, lastErr, sendResult, httpLog, waits>>
    /\ UNCHANGED <<configVars, urlVars, builderVars, concVars, toolVars>>

NextSend ==
    \/ SendTop
    \/ SendWaitElapsed
    \/ SendWaitCancelled
    \/ SendAttempt
    \/ SendAttemptCancelled
    \/ CtxDone

SpecSend == InitSend /\ [][NextSend]_vars

\* The Robot is not in use while loadConfig runs.
SendIdle ==
    /\ retryCount = DefaultRetryCount
    /\ ctx = "live"
    /\ spc = "idle"
    /\ attempt = 0
    /\ lastErr = NilErr
    /\ sendResult = NoResult
    /\ httpLog = <<>>
    /\ waits = <<>>

InitConfig == ConfigStart /\ SendIdle /\ URLIdle /\ BuilderIdle /\ ConcIdle /\ ToolsIdle

SpecConfig == InitConfig /\ [][NextConfig]_vars

\* The number of HTTP attempts send has made.
Attempts == Len(httpLog)

(***************************************************************************)
(* Robot.send: properties                                                  *)
(***************************************************************************)
\* The response is decoded and carries a nonzero errcode (an API-class error).
ApiResponse(o) == o.fail = "none" /\ o.status = StatusOK /\ o.body.parses /\ o.body.errcode # 0

\* The response is a success: decoded, errcode 0.
OkResponse(o) == o.fail = "none" /\ o.status = StatusOK /\ o.body.parses /\ o.body.errcode = 0

\* The attempt ended in a transport-class failure.
TransportFailure(o) == ~ApiResponse(o) /\ ~OkResponse(o)

\* The number of attempts so far that ended in a transport-class failure.
FailCount == Cardinality({i \in 1 .. Len(httpLog) : TransportFailure(httpLog[i])})

Returned == spc = "returned"

\* C8: when the transport fails k times with transport-class failures and
\* then succeeds, with k <= retryCount, send returns success after exactly
\* k+1 attempts: a success is returned only after the k failures and one
\* successful attempt, and while the context is live send does not give up
\* before the (k+1)-th attempt.
C8_RetryThenSuccess ==
    Returned =>
        /\ sendResult = NilErr =>
              /\ Attempts = FailCount + 1
              /\ OkResponse(httpLog[Attempts])
              /\ FailCount <= retryCount
        /\ ( /\ ctx = "live"
             /\ FailCount <= retryCount
             /\ \A i \in 1 .. Len(httpLog) : ~ApiResponse(httpLog[i]) ) =>
              /\ sendResult = NilErr
              /\ Attempts = FailCount + 1

\* Two failures, then success, with retry count 3: three attempts.
C8_Witness ==
    /\ Returned
    /\ retryCount = 3
    /\ FailCount = 2
    /\ Attempts = 3
    /\ sendResult = NilErr

\* C9: an attempt that receives a decoded response with nonzero errcode is
\* the last attempt of the send, and send returns that *Error itself
\* (code preserved, recognised by IsError), never a retry-exhausted error.
C9_ApiErrorNotRetried ==
    \A i \in 1 .. Len(httpLog) :
        ApiResponse(httpLog[i]) =>
            /\ i = Len(httpLog)
            /\ Returned
            /\ IsError(sendResult)
            /\ sendResult = ApiError(httpLog[i].body.errcode)

\* An API error on an attempt that still had retries left.
C9_Witness ==
    /\ Returned
    /\ retryCount = 3
    /\ Attempts = 2
    /\ ApiResponse(httpLog[2])
    /\ sendResult.kind = "Error"

\* C10 as stated: the configured count (default 3) bounds the number of
\* attempts, and count 0 gives one attempt.
C10_Original ==
    /\ retryCount >= 1 => Attempts <= retryCount
    /\ retryCount = 0 => Attempts <= 1

\* The most attempts a send can make with retry count rc.
MaxAttemptsOf(rc) == IF rc < 0 THEN 0 ELSE rc + 1

\* C10 (amended): a send makes at most retryCount + 1 attempts (none for a
\* negative count); with count 0 it never waits or retries and, unless the
\* context was already done, makes exactly one attempt.
C10_AttemptBound ==
    /\ Attempts <= MaxAttemptsOf(retryCount)
    /\ retryCount = 0 => waits = <<>>
    /\ (retryCount = 0 /\ Returned /\ sendResult.kind # "ctx") => Attempts = 1

\* The default count, every attempt failing: four attempts.
C10_Witness ==
    /\ Returned
    /\ retryCount = DefaultRetryCount
    /\ Attempts = DefaultRetryCount + 1
    /\ sendResult.kind = "exhausted"

\* C11: whenever send ends because its context was cancelled or its deadline
\* passed, the error it returns is the context's own error, never a
\* retry-exhausted error wrapping it.
C11_CtxErrorUnwrapped ==
    (Returned /\ sendResult.cause \in {"canceled", "deadline"}) => sendResult.kind = "ctx"

\* C12: when the context is already done at the first check of send, send
\* returns the context's error without any HTTP attempt, for every retry
\* count.
C12_DoneContextReturnsCtxErr ==
    [][(spc = "top" /\ attempt = 0 /\ ctx # "live" /\ spc' = "returned") =>
          (sendResult' = CtxErr /\ httpLog' = <<>>)]_vars

\* The status is a 2xx status.
Is2xx(status) == status >= 200 /\ status <= 299

\* C13: every attempt that got a response is classified by its status: a
\* 2xx response is decoded and is a success iff errcode is 0 (an API error
\* otherwise); a non-2xx response is a transport-class failure.
C13_StatusClass ==
    \A i \in 1 .. Len(httpLog) :
        LET o == httpLog[i] IN
        o.fail = "none" =>
            IF Is2xx(o.status)
            THEN /\ (o.body.parses /\ o.body.errcode = 0) => doSend(o) = NilErr
                 /\ (o.body.parses /\ o.body.errcode # 0) => doSend(o) = ApiError(o.body.errcode)
                 /\ ~o.body.parses => doSend(o).cause = "decode"
            ELSE doSend(o).kind = "transport"

\* C14: when the context was never cancelled and every attempt ended in a
\* transport-class failure, send returns a retry-exhausted error that
\* carries the configured retry count and wraps the error of the last
\* attempt; it is not an *Error.
C14_ExhaustedWrapsLast ==
    ( /\ Returned
      /\ ctx = "live"
      /\ \A i \in 1 .. Len(httpLog) : TransportFailure(httpLog[i]) ) =>
        /\ sendResult.kind = "exhausted"
        /\ sendResult.count = retryCount
        /\ ~IsError(sendResult)
        /\ Attempts >= 1 => sendResult = ExhaustedErr(retryCount, doSend(httpLog[Attempts]))
        /\ Attempts >= 1 => sendResult.lastKind = "transport"

\* Three failed attempts, the first a connection failure and the last a
\* status 500: the error wraps the status failure.
C14_Witness ==
    /\ Returned
    /\ ctx = "live"
    /\ retryCount = 2
    /\ Attempts = 3
    /\ httpLog[1].fail = "do"
    /\ httpLog[3].status = 500
    /\ sendResult.kind = "exhausted"
    /\ sendResult.cause = "status"
    /\ sendResult.code = 500

(***************************************************************************)
(* Robot: construction, buildRequestURL and calculateSign                  *)
(* A string the code assembles is a sequence of pieces.                    *)
(***************************************************************************)
\* the last reading of the clock
MaxClock == 1

DefaultHost == "oapi.dingtalk.com"

\* seconds
DefaultTimeout == 10

\* seconds
DefaultRetryInterval == 1

\* strconv.FormatInt(n, 10) and the verb %d, for n >= 0
RECURSIVE FormatInt(_)
FormatInt(n) ==
    LET digit == <<"0", "1", "2", "3", "4", "5", "6", "7", "8", "9">>[(n % 10) + 1] IN
    IF n < 10 THEN <<digit>> ELSE FormatInt(n \div 10) \o <<digit>>

\* One query parameter key=value.
Param(key, value) == [key |-> key, value |-> value]

\* NewRobot(WithAccessToken(token), WithSignSecret(secret), WithRetry(count)):
\* the defaults, then the options, then webhookURL
\* "https://%s/robot/send?access_token=%s".
NewRobot(token, secret, count) ==
    [ accessToken   |-> token,
      signSecret    |-> secret,
      host          |-> DefaultHost,
      timeout       |-> DefaultTimeout,
      retryCount    |-> count,
      retryInterval |-> DefaultRetryInterval,
      webhookURL    |-> [ host  |-> DefaultHost,
                          path  |-> "/robot/send",
                          query |-> <<Param("access_token", <<token>>)>> ] ]

\* fmt.Sprintf("%d\n%s", timestamp, r.signSecret)
stringToSign(timestamp, secret) == FormatInt(timestamp) \o <<"\n", secret>>

\* hmac.New(sha256.New, key) over msg: an injective stand-in for the digest
HmacSha256(key, msg) == <<"hmac-sha256", key>> \o msg

\* base64.StdEncoding.EncodeToString
Base64(bytes) == <<"base64">> \o bytes

calculateSignWithToken(r, timestamp) ==
    Base64(HmacSha256(r.signSecret, stringToSign(timestamp, r.signSecret) \o <<r.accessToken>>))

\* (r *Robot) calculateSign(timestamp)
calculateSign(r, timestamp) ==
    Base64(HmacSha256(r.signSecret, stringToSign(timestamp, r.signSecret)))

\* url.Values.Encode of the two parameters: sorted by key
EncodeParams(timestamp, sign) ==
    <<Param("sign", sign), Param("timestamp", FormatInt(timestamp))>>

buildRequestURLAlwaysSigned(r, now) ==
    [r.webhookURL EXCEPT !.query = @ \o EncodeParams(now, calculateSign(r, now))]

\* (r *Robot) buildRequestURL(), with now the value of time.Now().UnixMilli()
buildRequestURL(r, now) ==
    IF r.signSecret = ""
    THEN r.webhookURL
    ELSE [r.webhookURL EXCEPT !.query = @ \o EncodeParams(now, calculateSign(r, now))]

RobotIds == {1, 2}

Tokens == {"token1", "token2"}

\* "" is a Robot without WithSignSecret
Secrets == {"", "SECtest123", "secret"}

Robots == {NewRobot(t, s, DefaultRetryCount) : t \in Tokens, s \in Secrets}

Timestamps == 0 .. MaxClock

\* Two Robots have been constructed.
InitURL ==
    /\ ConfigIdle
    /\ ToolsIdle
    /\ SendIdle
    /\ BuilderIdle
    /\ ConcIdle
    /\ robots \in [RobotIds -> Robots]
    /\ clock = 0
    /\ urlLog = {}
    /\ signLog = {}

\* Time passes.
Tick ==
    /\ clock < MaxClock
    /\ clock' = clock + 1
    /\ UNCHANGED <<robots, urlLog, signLog>>
    /\ UNCHANGED <<configVars, sendVars, builderVars, concVars, toolVars>>

\* The entry of one calculateSign call.
SignEntry(i, timestamp, sign) ==
    [r |-> i, secret |-> robots[i].signSecret, timestamp |-> timestamp, sign |-> sign]

\* doSend of robot i calls r.buildRequestURL().
BuildRequestURL(i) ==
    /\ urlLog' = urlLog \cup {[r |-> i, url |-> buildRequestURL(robots[i], clock)]}
    /\ signLog' = IF robots[i].signSecret = ""
                  THEN signLog
                  ELSE signLog \cup {SignEntry(i, clock, calculateSign(robots[i], clock))}
    /\ UNCHANGED <<robots, clock>>
    /\ UNCHANGED <<configVars, sendVars, builderVars, concVars, toolVars>>

\* A direct call robot.calculateSign(timestamp), as in TestSignature.
CalculateSign(i, timestamp) ==
    /\ signLog' = signLog \cup {SignEntry(i, timestamp, calculateSign(robots[i], timestamp))}
    /\ UNCHANGED <<robots, clock, urlLog>>
    /\ UNCHANGED <<configVars, sendVars, builderVars, concVars, toolVars>>

NextURL ==
    \/ Tick
    \/ \E i \in RobotIds : BuildRequestURL(i)
    \/ \E i \in RobotIds, timestamp \in Timestamps : CalculateSign(i, timestamp)

SpecURL == InitURL /\ [][NextURL]_vars

\* The keys of the query parameters of a URL, in order.
QueryKeys(url) == [j \in 1 .. Len(url.query) |-> url.query[j].key]

\* The URL has a query parameter with this key.
HasParam(url, key) == \E j \in 1 .. Len(url.query) : url.query[j].key = key

\* C15: every request URL carries the timestamp and sign parameters iff the
\* Robot has a signing secret; without a secret its only parameter is
\* access_token.
C15_SignedIffSecret ==
    \A e \in urlLog :
        LET r == robots[e.r] IN
        /\ HasParam(e.url, "timestamp") <=> r.signSecret # ""
        /\ HasParam(e.url, "sign") <=> r.signSecret # ""
        /\ HasParam(e.url, "access_token")
        /\ r.signSecret = "" => QueryKeys(e.url) = <<"access_token">>

\* One Robot with a secret and one without have both built a URL.
C15_Witness ==
    /\ \E e \in urlLog : robots[e.r].signSecret # "" /\ HasParam(e.url, "sign")
    /\ \E e \in urlLog : robots[e.r].signSecret = "" /\ ~HasParam(e.url, "sign")

\* C16: two calculateSign calls with the same secret and the same timestamp
\* return the same signature, whichever Robot made them, whatever its other
\* fields are and whatever calls came before.
C16_SignDeterministic ==
    \A a, b \in signLog :
        (a.secret = b.secret /\ a.timestamp = b.timestamp) => a.sign = b.sign

\* Two Robots with the same secret and different tokens have signed the same
\* timestamp, one of them directly and one while building a URL.
C16_Witness ==
    \E a, b \in signLog :
        /\ a.r # b.r
        /\ a.secret = b.secret
        /\ a.timestamp = b.timestamp
        /\ robots[a.r].accessToken # robots[b.r].accessToken
        /\ \E e \in urlLog : e.r = a.r
        /\ Cardinality(signLog) >= 3

(***************************************************************************)
(* Message builders                                                        *)
(* The content, title and text a builder is created with never change and  *)
(* are left out. A JSON key that can be left out is a pair of a presence   *)
(* flag and a value.                                                       *)
(***************************************************************************)
\* how many builder calls are made before Send
MaxCalls == 3

\* &AtInfo{}
NoAt == [AtMobiles |-> <<>>, AtUserIds |-> <<>>, IsAtAll |-> FALSE]

\* The zero value of a builder struct of the given kind.
NewBuilder(kind) ==
    [ kind           |-> kind,
      at             |-> NoAt,
      picURL         |-> "",
      btnOrientation |-> "",
      singleTitle    |-> "",
      singleURL      |-> "",
      buttons        |-> <<>>,
      links          |-> <<>> ]

\* r.Text(content)
Text == NewBuilder("text")

\* r.Markdown(title, text)
Markdown == NewBuilder("markdown")

\* r.Link(title, text, messageURL)
Link == NewBuilder("link")

\* r.ActionCard(title, text)
ActionCard == [NewBuilder("actionCard") EXCEPT !.btnOrientation = "0"]

\* r.FeedCard()
FeedCard == NewBuilder("feedCard")

AtMobilesReplace(b, mobiles) == [b EXCEPT !.at.AtMobiles = mobiles]

\* (b *TextBuilder) AtMobiles(mobiles ...string), and MarkdownBuilder's
AtMobiles(b, mobiles) == [b EXCEPT !.at.AtMobiles = @ \o mobiles]

\* (b *TextBuilder) AtUserIds(userIds ...string), and MarkdownBuilder's
AtUserIds(b, userIds) == [b EXCEPT !.at.AtUserIds = @ \o userIds]

AtAllClears(b) == [b EXCEPT !.at.IsAtAll = TRUE, !.at.AtMobiles = <<>>]

\* (b *TextBuilder) AtAll(), and MarkdownBuilder's
AtAll(b) == [b EXCEPT !.at.IsAtAll = TRUE]

\* (b *LinkBuilder) WithPicture(picURL)
WithPicture(b, picURL) == [b EXCEPT !.picURL = picURL]

\* (b *ActionCardBuilder) SingleButton(title, actionURL)
SingleButton(b, title, actionURL) ==
    [b EXCEPT !.singleTitle = title, !.singleURL = actionURL]

\* (b *ActionCardBuilder) AddButton(title, actionURL)
AddButton(b, title, actionURL) ==
    [b EXCEPT !.buttons = Append(@, [Title |-> title, ActionURL |-> actionURL])]

\* (b *ActionCardBuilder) Horizontal()
Horizontal(b) == [b EXCEPT !.btnOrientation = "1"]

\* (b *ActionCardBuilder) Vertical()
Vertical(b) == [b EXCEPT !.btnOrientation = "0"]

\* (b *FeedCardBuilder) AddLink(title, messageURL, picURL)
AddLink(b, title, messageURL, picURL) ==
    [b EXCEPT !.links = Append(@, [Title |-> title, MessageURL |-> messageURL,
                                   PicURL |-> picURL])]

\* One builder call: the method and its arguments.
MkCall(op, args) == [op |-> op, args |-> args]

\* The builder after the call c.
ApplyCall(b, c) ==
    CASE c.op = "AtMobiles"    -> AtMobiles(b, c.args)
      [] c.op = "AtUserIds"    -> AtUserIds(b, c.args)
      [] c.op = "AtAll"        -> AtAll(b)
      [] c.op = "WithPicture"  -> WithPicture(b, c.args[1])
      [] c.op = "SingleButton" -> SingleButton(b, c.args[1], c.args[2])
      [] c.op = "AddButton"    -> AddButton(b, c.args[1], c.args[2])
      [] c.op = "Horizontal"   -> Horizontal(b)
      [] c.op = "Vertical"     -> Vertical(b)
      [] c.op = "AddLink"      -> AddLink(b, c.args[1], c.args[2], c.args[3])

\* A JSON key that is left out when present is false.
Opt(present, value, zero) == [present |-> present, value |-> IF present THEN value ELSE zero]

\* json.Marshal of *AtInfo: every field has omitempty
AtInfoJSON(b) ==
    [ present   |-> b.kind \in {"text", "markdown"},
      atMobiles |-> Opt(Len(b.at.AtMobiles) > 0, b.at.AtMobiles, <<>>),
      atUserIds |-> Opt(Len(b.at.AtUserIds) > 0, b.at.AtUserIds, <<>>),
      isAtAll   |-> Opt(b.at.IsAtAll, TRUE, FALSE) ]

ActionCardJSONBoth(b) ==
    [ present        |-> b.kind = "actionCard",
      btnOrientation |-> b.btnOrientation,
      singleTitle    |-> Opt(b.singleTitle # "", b.singleTitle, ""),
      singleURL      |-> Opt(b.singleTitle # "", b.singleURL, ""),
      btns           |-> Opt(Len(b.buttons) > 0, b.buttons, <<>>) ]

\* the card map of (b *ActionCardBuilder) SendWithContext
ActionCardJSON(b) ==
    [ present        |-> b.kind = "actionCard",
      btnOrientation |-> b.btnOrientation,
      singleTitle    |-> Opt(b.singleTitle # "", b.singleTitle, ""),
      singleURL      |-> Opt(b.singleTitle # "", b.singleURL, ""),
      btns           |-> Opt(b.singleTitle = "" /\ Len(b.buttons) > 0, b.buttons, <<>>) ]

\* the link map of (b *LinkBuilder) SendWithContext
LinkJSON(b) ==
    [ present |-> b.kind = "link",
      picUrl  |-> Opt(b.picURL # "", b.picURL, "") ]

\* the feedCard map of (b *FeedCardBuilder) SendWithContext
FeedCardJSON(b) ==
    [ present |-> b.kind = "feedCard",
      links   |-> b.links ]

\* The message a builder's SendWithContext hands to send, as doSend
\* marshals it.
Message(b) ==
    [ sent       |-> TRUE,
      msgtype    |-> b.kind,
      at         |-> AtInfoJSON(b),
      link       |-> LinkJSON(b),
      actionCard |-> ActionCardJSON(b),
      feedCard   |-> FeedCardJSON(b) ]

\* Nothing has been sent.
NoPayload == [Message(NewBuilder("none")) EXCEPT !.sent = FALSE]

Mobiles == {<<>>, <<"138">>, <<"139", "138">>}

UserIds == {<<"u1">>, <<"u2", "u1">>}

Pictures == {"", "https://xxx/logo.png", "https://xxx/pic1.jpg"}

ButtonArgs == {<<"", "https://xxx">>, <<"confirm", "https://xxx">>, <<"agree", "https://xxx/yes">>}

LinkArgs == {<<"news1", "https://xxx/1", "https://xxx/pic1.jpg">>,
             <<"news2", "https://xxx/2", "https://xxx/pic2.jpg">>}

\* A builder has been created.
InitBuilder ==
    /\ ConfigIdle
    /\ ToolsIdle
    /\ SendIdle
    /\ URLIdle
    /\ ConcIdle
    /\ builder \in {Text, Markdown, Link, ActionCard, FeedCard}
    /\ calls = <<>>
    /\ payload = NoPayload

\* The call c is made on the builder.
Call(kinds, c) ==
    /\ builder.kind \in kinds
    /\ ~payload.sent
    /\ Len(calls) < MaxCalls
    /\ builder' = ApplyCall(builder, c)
    /\ calls' = Append(calls, c)
    /\ UNCHANGED payload
    /\ UNCHANGED <<configVars, sendVars, urlVars, concVars, toolVars>>

CallAtMobiles == \E m \in Mobiles : Call({"text", "markdown"}, MkCall("AtMobiles", m))

CallAtUserIds == \E u \in UserIds : Call({"text", "markdown"}, MkCall("AtUserIds", u))

CallAtAll == Call({"text", "markdown"}, MkCall("AtAll", <<>>))

CallWithPicture == \E pic \in Pictures : Call({"link"}, MkCall("WithPicture", <<pic>>))

CallSingleButton == \E a \in ButtonArgs : Call({"actionCard"}, MkCall("SingleButton", a))

CallAddButton == \E a \in ButtonArgs : Call({"actionCard"}, MkCall("AddButton", a))

CallHorizontal == Call({"actionCard"}, MkCall("Horizontal", <<>>))

CallVertical == Call({"actionCard"}, MkCall("Vertical", <<>>))

CallAddLink == \E a \in LinkArgs : Call({"feedCard"}, MkCall("AddLink", a))

\* b.Send(): the message is built and marshalled.
Send ==
    /\ ~payload.sent
    /\ payload' = Message(builder)
    /\ UNCHANGED <<builder, calls>>
    /\ UNCHANGED <<configVars, sendVars, urlVars, concVars, toolVars>>

NextBuilder ==
    \/ CallAtMobiles
    \/ CallAtUserIds
    \/ CallAtAll
    \/ CallWithPicture
    \/ CallSingleButton
    \/ CallAddButton
    \/ CallHorizontal
    \/ CallVertical
    \/ CallAddLink
    \/ Send

SpecBuilder == InitBuilder /\ [][NextBuilder]_vars

\* The arguments of all calls of one method, concatenated in call order.
RECURSIVE ConcatArgs(_, _)
ConcatArgs(cs, op) ==
    IF cs = <<>> THEN <<>>
    ELSE (IF Head(cs).op = op THEN Head(cs).args ELSE <<>>) \o ConcatArgs(Tail(cs), op)

\* The method was called at least once.
Called(op) == \E i \in 1 .. Len(calls) : calls[i].op = op

\* What a reader of the JSON finds under a key of "at": a key that is left
\* out reads as the empty list, or as false.
AtField(key) == IF payload.at[key].present THEN payload.at[key].value ELSE <<>>

AtFlag(key) == payload.at[key].present /\ payload.at[key].value

\* C17: the message sent by a Text or Markdown builder has at.atMobiles
\* equal to the mobile arguments of all AtMobiles calls in call order,
\* at.atUserIds likewise, and at.isAtAll true iff AtAll was called.
C17_AtAccumulates ==
    (payload.sent /\ payload.msgtype \in {"text", "markdown"}) =>
        /\ payload.at.present
        /\ AtField("atMobiles") = ConcatArgs(calls, "AtMobiles")
        /\ AtField("atUserIds") = ConcatArgs(calls, "AtUserIds")
        /\ AtFlag("isAtAll") <=> Called("AtAll")

\* AtMobiles("138"), AtAll(), AtMobiles("139", "138") on a Text builder.
C17_Witness ==
    /\ payload.sent
    /\ payload.msgtype = "text"
    /\ calls = <<MkCall("AtMobiles", <<"138">>), MkCall("AtAll", <<>>),
                 MkCall("AtMobiles", <<"139", "138">>)>>
    /\ payload.at.atMobiles.value = <<"138", "139", "138">>
    /\ payload.at.isAtAll.value

\* The builder the calls cs leave, applied in order to b.
RECURSIVE ApplyAll(_, _)
ApplyAll(b, cs) == IF cs = <<>> THEN b ELSE ApplyAll(ApplyCall(b, Head(cs)), Tail(cs))

\* The calls with the calls at i and i + 1 exchanged.
Swap(cs, i) == [cs EXCEPT ![i] = cs[i + 1], ![i + 1] = cs[i]]

\* The builder of the same kind as created, before any call.
Created ==
    CASE builder.kind = "text" -> Text
      [] builder.kind = "markdown" -> Markdown
      [] builder.kind = "link" -> Link
      [] builder.kind = "actionCard" -> ActionCard
      [] builder.kind = "feedCard" -> FeedCard

\* The field of the builder a method writes.
FieldOfCall(op) ==
    CASE op = "AtMobiles"    -> "at.AtMobiles"
      [] op = "AtUserIds"    -> "at.AtUserIds"
      [] op = "AtAll"        -> "at.IsAtAll"
      [] op = "WithPicture"  -> "picURL"
      [] op = "SingleButton" -> "singleTitle"
      [] op = "AddButton"    -> "buttons"
      [] op = "Horizontal"   -> "btnOrientation"
      [] op = "Vertical"     -> "btnOrientation"
      [] op = "AddLink"      -> "links"

\* C18 as stated: the message sent is the same when two neighbouring calls
\* are made in the other order, whatever the calls are.
C18_Original ==
    payload.sent =>
        \A i \in 1 .. (Len(calls) - 1) :
            Message(ApplyAll(Created, Swap(calls, i))) = payload

\* C18: the message sent is the same when two neighbouring calls that write
\* different fields of the builder are made in the other order.
C18_DifferentFieldsCommute ==
    payload.sent =>
        \A i \in 1 .. (Len(calls) - 1) :
            FieldOfCall(calls[i].op) # FieldOfCall(calls[i + 1].op) =>
                Message(ApplyAll(Created, Swap(calls, i))) = payload

\* AddButton, then SingleButton with an empty title, then Horizontal, sent:
\* each pair of neighbours writes different fields.
C18_Witness ==
    /\ payload.sent
    /\ Len(calls) = 3
    /\ calls[1].op = "AddButton"
    /\ calls[2].op = "SingleButton"
    /\ calls[2].args[1] = ""
    /\ calls[3].op = "Horizontal"
    /\ payload.actionCard.btns.present

\* C19: the card an ActionCard builder sends never has both singleTitle or
\* singleURL and btns; singleTitle and singleURL come together; and when a
\* button with a title was set or added the card has exactly one of the two
\* forms.
C19_SingleXorMulti ==
    (payload.sent /\ payload.msgtype = "actionCard") =>
        LET card == payload.actionCard IN
        /\ ~(card.btns.present /\ (card.singleTitle.present \/ card.singleURL.present))
        /\ card.singleTitle.present <=> card.singleURL.present
        /\ (builder.singleTitle # "" \/ Called("AddButton")) =>
               (card.btns.present \/ card.singleTitle.present)

\* Both SingleButton with a title and AddButton were called: the card sent
\* is the single-button one.
C19_Witness ==
    /\ payload.sent
    /\ payload.msgtype = "actionCard"
    /\ Called("AddButton")
    /\ Called("SingleButton")
    /\ payload.actionCard.singleTitle.present
    /\ ~payload.actionCard.btns.present
    /\ Len(builder.buttons) > 0

(***************************************************************************)
(* Concurrent sends on one Robot                                           *)
(* Every goroutine runs send on the shared Robot with its own context and  *)
(* its own locals; the steps are those of Robot.send.                      *)
(***************************************************************************)
\* the largest retry count of the shared Robot
MaxConcRetry == 1

Goroutines == {1, 2}

\* ctx.Err() of a context that ended as c
CtxErrOf(c) == MkErr("ctx", 0, c, 0, "none")

\* The outcome of a request whose context ended as c while it was in flight.
CtxOutcomeOf(c) == [fail |-> c, status |-> 0, body |-> [parses |-> FALSE, errcode |-> 0]]

\* What the server or the transport does with a request of a concurrent send.
ConcOutcomes ==
    {[fail |-> "do", status |-> 0, body |-> [parses |-> FALSE, errcode |-> 0]],
     [fail |-> "none", status |-> 500, body |-> [parses |-> FALSE, errcode |-> 0]],
     [fail |-> "none", status |-> StatusOK, body |-> [parses |-> TRUE, errcode |-> 0]],
     [fail |-> "none", status |-> StatusOK, body |-> [parses |-> TRUE, errcode |-> 400101]]}

\* One thing that happened to a send from outside: its context ended
\* ("ctx"), the timer of its wait fired ("timer"), or a request of its own
\* finished ("response").
Event(ev, o) == [ev |-> ev, o |-> o]

\* The locals of a send call that has just been entered.
NewSend ==
    [ pc      |-> "top",
      ctx     |-> "live",
      attempt |-> 0,
      lastErr |-> NilErr,
      result  |-> NoResult,
      events  |-> <<>> ]

RobotAfterCounting(r, l) == [r EXCEPT !.retryCount = @ - 1]

\* The Robot after a step of the send with locals l: send, doSend,
\* buildRequestURL and calculateSign only read the fields of r.
RobotAfter(r, l) == r

\* One Robot is shared and every goroutine has called send.
InitConcurrent ==
    /\ ConfigIdle
    /\ ToolsIdle
    /\ SendIdle
    /\ URLIdle
    /\ BuilderIdle
    /\ client \in {NewRobot(t, s, n) : t \in {"token1"}, s \in {"", "secret"},
                                      n \in 0 .. MaxConcRetry}
    /\ sends = [g \in Goroutines |-> NewSend]

\* The send of goroutine g takes a step that leaves its locals as l.
Step(g, l) ==
    /\ sends' = [sends EXCEPT ![g] = l]
    /\ client' = RobotAfter(client, l)
    /\ UNCHANGED <<configVars, sendVars, urlVars, builderVars, toolVars>>

\* The locals after send returns err.
Returning(l, err) == [l EXCEPT !.pc = "returned", !.result = err]

\* The loop condition and the first select of an iteration.
GoSendTop(g) ==
    LET l == sends[g] IN
    /\ l.pc = "top"
    /\ Step(g, IF ~LoopCond(l.attempt, client.retryCount)
               THEN Returning(l, ExhaustedErr(client.retryCount, l.lastErr))
               ELSE IF l.ctx # "live"
               THEN Returning(l, CtxErrOf(l.ctx))
               ELSE [l EXCEPT !.pc = IF l.attempt > 0 THEN "wait" ELSE "inflight"])

\* The second select: the timer fires.
GoWaitElapsed(g) ==
    LET l == sends[g] IN
    /\ l.pc = "wait"
    /\ Step(g, [l EXCEPT !.pc = "inflight",
                         !.events = Append(@, Event("timer", CtxOutcomeOf(l.ctx)))])

\* The second select: ctx.Done() is ready.
GoWaitCancelled(g) ==
    LET l == sends[g] IN
    /\ l.pc = "wait"
    /\ l.ctx # "live"
    /\ Step(g, Returning(l, CtxErrOf(l.ctx)))

\* doSend of goroutine g returned for the outcome o.
GoAfterDoSend(g, o) ==
    LET l == sends[g]
        err == doSend(o)
        logged == [l EXCEPT !.events = Append(@, Event("response", o))]
    IN  Step(g, IF err = NilErr
                THEN Returning(logged, NilErr)
                ELSE IF IsError(err)
                THEN Returning([logged EXCEPT !.lastErr = err], err)
                ELSE [logged EXCEPT !.lastErr = err, !.attempt = @ + 1, !.pc = "top"])

\* The request of goroutine g completes with some outcome.
GoAttempt(g) ==
    /\ sends[g].pc = "inflight"
    /\ \E o \in ConcOutcomes : GoAfterDoSend(g, o)

\* The context of goroutine g ends while its request is in flight.
GoAttemptCancelled(g) ==
    /\ sends[g].pc = "inflight"
    /\ sends[g].ctx # "live"
    /\ GoAfterDoSend(g, CtxOutcomeOf(sends[g].ctx))

\* The caller of goroutine g cancels its context, or its deadline passes.
GoCtxDone(g) ==
    LET l == sends[g] IN
    /\ l.pc \in {"top", "wait", "inflight"}
    /\ l.ctx = "live"
    /\ \E c \in {"canceled", "deadline"} :
           /\ sends' = [sends EXCEPT ![g] = [l EXCEPT !.ctx = c,
                                   !.events = Append(@, Event("ctx", CtxOutcomeOf(c)))]]
           /\ UNCHANGED client
           /\ UNCHANGED <<configVars, sendVars, urlVars, builderVars, toolVars>>

NextConcurrent ==
    \/ \E g \in Goroutines : GoSendTop(g)
    \/ \E g \in Goroutines : GoWaitElapsed(g)
    \/ \E g \in Goroutines : GoWaitCancelled(g)
    \/ \E g \in Goroutines : GoAttempt(g)
    \/ \E g \in Goroutines : GoAttemptCancelled(g)
    \/ \E g \in Goroutines : GoCtxDone(g)

SpecConcurrent == InitConcurrent /\ [][NextConcurrent]_vars

\* Two sends to which the same things happened in the same order are at
\* the same point with the same error.
OutcomesIndependent ==
    \A g, h \in Goroutines :
        (sends[g].events = sends[h].events /\ sends[g].pc = "returned" /\ sends[h].pc = "returned")
            => sends[g].result = sends[h].result

\* C20: under every interleaving of the sends no step changes a field of the
\* Robot, and the error a send returns is determined by what happened to
\* that send alone (its context and the responses to its own requests).
C20_SendsDoNotInterfere ==
    [][client' = client /\ OutcomesIndependent']_vars

\* Both sends have returned: one delivered at its first attempt, the other
\* used every attempt of a Robot with one retry.
C20_Witness ==
    /\ client.retryCount = 1
    /\ sends[1].pc = "returned"
    /\ sends[2].pc = "returned"
    /\ sends[1].result = NilErr
    /\ Len(sends[1].events) = 1
    /\ sends[2].result.kind = "exhausted"
    /\ Len(sends[2].events) = 3

(***************************************************************************)
(* Robot.send: backoff and negative retry counts                           *)
(***************************************************************************)
\* The sum of a sequence of numbers.
RECURSIVE SumSeq(_)
SumSeq(q) == IF q = <<>> THEN 0 ELSE Head(q) + SumSeq(Tail(q))

\* C24: send waits only before a retry: no wait has elapsed when the first
\* attempt is made, the wait before the n-th retry is n times the base
\* interval, every retry that was made was preceded by its wait, and the
\* waits before the n-th retry add up to base * n(n+1)/2.
C24_LinearBackoff ==
    /\ \A n \in 1 .. Len(waits) : waits[n] = n
    /\ 2 * SumSeq(waits) = Len(waits) * (Len(waits) + 1)
    /\ (spc = "inflight" /\ attempt = 0) => waits = <<>>
    /\ spc = "inflight" => Len(waits) = attempt
    /\ Attempts >= 1 => Len(waits) >= Attempts - 1
    /\ Len(waits) <= Attempts

\* The third retry is in flight: the waits were 1, 2 and 3 base intervals.
C24_Witness ==
    /\ spc = "inflight"
    /\ attempt = 3
    /\ Attempts = 3
    /\ waits = <<1, 2, 3>>
    /\ SumSeq(waits) = 6

\* C29: whatever the retry count, a send that returns with its context
\* live has made at least one attempt, and a retry-exhausted error wraps the
\* failure of an attempt that was made.
C29_AtLeastOneAttempt ==
    (Returned /\ ctx = "live") =>
        /\ Attempts >= 1
        /\ sendResult.kind = "exhausted" => sendResult.lastKind # "nil"

(***************************************************************************)
(* loadConfig: where a candidate is taken from, and the order of files     *)
(***************************************************************************)
\* The loop over cFiles has ended without an exit.
LoopOver == (cpc = "files" /\ fileIdx > Len(cFiles)) \/ cpc \in {"unmarshal", "done"}

\* The file the candidate c stands for: itself when absolute, else the
\* working directory's when that is a regular file, else the executable
\* directory's.
FirstPlace(c) ==
    IF IsAbs(c) THEN c
    ELSE IF IsRegular(Join(workingDirectory, c)) THEN Join(workingDirectory, c)
    ELSE Join(executableDir, c)

\* The files of the candidates that exist, in listed order.
RECURSIVE ExistingFiles(_)
ExistingFiles(names) ==
    IF names = <<>> THEN <<>>
    ELSE LET q == FirstPlace(ParsePath(Head(names))) IN
         (IF IsRegular(q) THEN <<q>> ELSE <<>>) \o ExistingFiles(Tail(names))

\* C23: once the loop over the candidates has ended, the files loaded are,
\* for every candidate that exists, the working directory's file when there
\* is one and else the executable directory's.
C23_WorkingDirectoryFirst ==
    LoopOver => loaded = ExistingFiles(cFiles)

\* The files the candidates were resolved to by the loop body that exist,
\* in listed order.
RECURSIVE ResolvedFiles(_)
ResolvedFiles(names) ==
    IF names = <<>> THEN <<>>
    ELSE LET q == resolve(ParsePath(Head(names))) IN
         (IF pathIsFile(q) THEN <<q>> ELSE <<>>) \o ResolvedFiles(Tail(names))

\* C26: when the loop over several listed files has ended, every listed
\* file that exists was loaded, in listed order, a missing one was skipped,
\* and a key that files define holds the value of the last listed file that
\* defines it.
C26_FilesOverlaidInOrder ==
    (cpc = "files" /\ fileIdx > Len(cFiles) /\ Len(cFiles) >= 2) =>
        /\ loaded = ResolvedFiles(cFiles)
        /\ \A i \in 1 .. Len(schema) :
              FileDefines(schema[i]) =>
                  k[schema[i].tag] = fs[LastFileDefining(schema[i])].data[schema[i].tag]

\* config1.toml and config2.toml were listed, both exist and both define
\* name: the store holds config2.toml's name.
C26_Witness ==
    /\ cpc = "files"
    /\ fileIdx > Len(cFiles)
    /\ cFiles = <<"config1.toml", "config2.toml">>
    /\ loaded = <<Config1Toml, Config2Toml>>
    /\ k["name"] = StrV("c2-name")

(***************************************************************************)
(* GetGitRootDir                                                           *)
(* A path is Path(abs, parts): "/" is Path(TRUE, <<>>) and "." is          *)
(* Path(FALSE, <<>>).                                                      *)
(***************************************************************************)
\* filepath.Dir of a clean path: the path without its last element; "/" for
\* "/" and "." for a path of one relative element and for "." itself.
Dir(p) == IF p.parts = <<>> THEN p ELSE Path(p.abs, SubSeq(p.parts, 1, Len(p.parts) - 1))

\* The path is "/".
IsRoot(p) == p.abs /\ p.parts = <<>>

\* os.Stat(dir + "/.git") succeeds; a relative dir is looked up from the
\* working directory.
HasGit(d) == (IF d.abs THEN d ELSE Join(workingDirectory, d)) \in gitDirs

\* The values of os.Args[0]: how the binary was started.
StartPaths ==
    {Path(TRUE, <<"work", "repo", "bin", "app">>),
     Path(TRUE, <<"work", "app">>),
     Path(TRUE, <<"usr", "bin", "app">>),
     Path(TRUE, <<"app">>),
     Path(FALSE, <<"app">>),
     Path(FALSE, <<"bin", "app">>),
     Path(FALSE, <<"repo", "bin", "app">>)}

\* The directories that may hold a .git.
GitPlaces ==
    {Path(TRUE, <<>>), Path(TRUE, <<"work">>), Path(TRUE, <<"work", "repo">>),
     Path(TRUE, <<"work", "bin">>), Path(TRUE, <<"usr">>)}

\* What GetGitRootDir returns.
GitReturn(done, d, err) == [done |-> done, dir |-> d, err |-> err]

\* GetGitRootDir has been called: dir := os.Args[0].
InitGit ==
    /\ ConfigIdle
    /\ SendIdle
    /\ URLIdle
    /\ BuilderIdle
    /\ ConcIdle
    /\ ExecIdle
    /\ ExtractIdle
    /\ AtomIdle
    /\ CopyIdle
    /\ args0 \in StartPaths
    /\ gitDirs \in SUBSET GitPlaces
    /\ curDir = args0
    /\ gitResult = GitReturn(FALSE, Path(FALSE, <<>>), "")
    /\ oddIter = FALSE

\* One iteration of the loop that finds .git: return dir, nil.
GitFound ==
    /\ ~gitResult.done
    /\ HasGit(curDir)
    /\ gitResult' = GitReturn(TRUE, curDir, "")
    /\ oddIter' = ~oddIter
    /\ UNCHANGED <<args0, gitDirs, curDir>>
    /\ UNCHANGED <<appVars, execVars, extractVars, atomVars, copyVars>>

\* One iteration at "/" without .git: the error.
GitNotFound ==
    /\ ~gitResult.done
    /\ ~HasGit(curDir)
    /\ IsRoot(curDir)
    /\ gitResult' = GitReturn(TRUE, Path(FALSE, <<>>), "not a git repository")
    /\ oddIter' = ~oddIter
    /\ UNCHANGED <<args0, gitDirs, curDir>>
    /\ UNCHANGED <<appVars, execVars, extractVars, atomVars, copyVars>>

\* One iteration that goes on with the parent: dir = filepath.Dir(dir).
\* At "." the parent is "." again and the loop goes round.
GitUp ==
    /\ ~gitResult.done
    /\ ~HasGit(curDir)
    /\ ~IsRoot(curDir)
    /\ curDir' = Dir(curDir)
    /\ oddIter' = ~oddIter
    /\ UNCHANGED <<args0, gitDirs, gitResult>>
    /\ UNCHANGED <<appVars, execVars, extractVars, atomVars, copyVars>>

NextGit ==
    \/ GitFound
    \/ GitNotFound
    \/ GitUp

SpecGit == InitGit /\ [][NextGit]_vars

\* The loop always takes its next iteration.
SpecGitLive == InitGit /\ [][NextGit]_vars /\ WF_vars(NextGit)

\* C21: GetGitRootDir returns, whatever os.Args[0] is.
C21_Terminates == <>gitResult.done

(***************************************************************************)
(* Exec                                                                    *)
(* A string written by the command is a sequence of chunks.                *)
(***************************************************************************)
\* how many Exec calls are made
MaxExecCalls == 2

\* var ExecOpt = &ExecOptions{Cwd: "", ExecutedHandler: executedHandlerFatalLog}
DefaultExecOpt == [Cwd |-> "", ExecutedHandler |-> "executedHandlerFatalLog"]

\* The option lists a call is made with.
OptionLists ==
    {<<>>, <<"WithCwd">>, <<"WithExeParentDir">>, <<"WithExecutedHandlerSlient">>,
     <<"WithCwd", "WithExecutedHandlerSlient">>}

\* o.applyTo(opt)
applyTo(o, opt) ==
    CASE o = "WithCwd" -> [opt EXCEPT !.Cwd = "/tmp"]
      [] o = "WithExeParentDir" -> [opt EXCEPT !.Cwd = "/bin"]
      [] o = "WithExecutedHandlerSlient" -> [opt EXCEPT !.ExecutedHandler = "nil"]

\* for _, o := range opts { o.applyTo(opt) }
RECURSIVE applyAll(_, _)
applyAll(opts, opt) ==
    IF opts = <<>> THEN opt ELSE applyAll(Tail(opts), applyTo(Head(opts), opt))

Streams == {"stdout", "stderr"}

\* What a command writes to its two streams.
Commands ==
    {[stdout |-> <<"o1">>, stderr |-> <<"e1">>],
     [stdout |-> <<"o1", "o2">>, stderr |-> <<"e1">>],
     [stdout |-> <<"o1">>, stderr |-> <<>>]}

\* &ExecResult{}
NewExecResult == [Stdout |-> <<>>, Stderr |-> <<>>, Output |-> <<>>]

\* A copying goroutine that is not inside Write.
NotWriting == [busy |-> FALSE, p |-> "", loaded |-> <<>>]

\* The program has started; Exec has not been called.
InitExec ==
    /\ ConfigIdle
    /\ SendIdle
    /\ URLIdle
    /\ BuilderIdle
    /\ ConcIdle
    /\ GitIdle
    /\ ExtractIdle
    /\ AtomIdle
    /\ CopyIdle
    /\ ExecOpt = DefaultExecOpt
    /\ epc = "ready"
    /\ execCalls = <<>>
    /\ res = NewExecResult
    /\ pending = [w \in Streams |-> <<>>]
    /\ writers = [w \in Streams |-> NotWriting]

\* Exec(cmd, opts...) up to command.Run(): opt := ExecOpt is the pointer to
\* the package variable, so applyTo writes the package variable.
ExecStart(opts, cmd) ==
    /\ epc = "ready"
    /\ Len(execCalls) < MaxExecCalls
    /\ ExecOpt' = applyAll(opts, ExecOpt)
    /\ execCalls' = Append(execCalls, [opts |-> opts, Dir |-> ExecOpt'.Cwd,
                                       ExecutedHandler |-> ExecOpt'.ExecutedHandler])
    /\ res' = NewExecResult
    /\ pending' = cmd
    /\ epc' = "running"
    /\ UNCHANGED writers
    /\ UNCHANGED <<appVars, gitVars, extractVars, atomVars, copyVars>>

\* resultWriter.Write(p) of the goroutine copying stream w, up to the read
\* of w.result.Output: the stream's own field is appended to and Output is
\* read.
WriteBegin(w) ==
    /\ epc = "running"
    /\ ~writers[w].busy
    /\ pending[w] # <<>>
    /\ LET p == Head(pending[w]) IN
          /\ res' = IF w = "stdout" THEN [res EXCEPT !.Stdout = Append(@, p)]
                                  ELSE [res EXCEPT !.Stderr = Append(@, p)]
          /\ writers' = [writers EXCEPT ![w] = [busy |-> TRUE, p |-> p, loaded |-> res.Output]]
    /\ pending' = [pending EXCEPT ![w] = Tail(@)]
    /\ UNCHANGED <<ExecOpt, epc, execCalls>>
    /\ UNCHANGED <<appVars, gitVars, extractVars, atomVars, copyVars>>

\* The rest of Write: w.result.Output = the value read + string(p).
WriteEnd(w) ==
    /\ epc = "running"
    /\ writers[w].busy
    /\ res' = [res EXCEPT !.Output = Append(writers[w].loaded, writers[w].p)]
    /\ writers' = [writers EXCEPT ![w] = NotWriting]
    /\ UNCHANGED <<ExecOpt, epc, execCalls, pending>>
    /\ UNCHANGED <<appVars, gitVars, extractVars, atomVars, copyVars>>

\* command.Run() returns once both streams are copied; Exec returns r.
ExecReturn ==
    /\ epc = "running"
    /\ \A w \in Streams : pending[w] = <<>> /\ ~writers[w].busy
    /\ epc' = "ready"
    /\ UNCHANGED <<ExecOpt, execCalls, res, pending, writers>>
    /\ UNCHANGED <<appVars, gitVars, extractVars, atomVars, copyVars>>

NextExec ==
    \/ \E opts \in OptionLists, cmd \in Commands : ExecStart(opts, cmd)
    \/ \E w \in Streams : WriteBegin(w)
    \/ \E w \in Streams : WriteEnd(w)
    \/ ExecReturn

SpecExec == InitExec /\ [][NextExec]_vars

\* C27: a call made without options runs with the default options, whatever
\* options earlier calls were given, and the package default ExecOpt never
\* changes.
C27_OptionsAreLocal ==
    /\ ExecOpt = DefaultExecOpt
    /\ \A i \in 1 .. Len(execCalls) :
          execCalls[i].opts = <<>> =>
              /\ execCalls[i].Dir = DefaultExecOpt.Cwd
              /\ execCalls[i].ExecutedHandler = DefaultExecOpt.ExecutedHandler

\* How often the chunk occurs in the sequence.
Occurrences(q, p) == Cardinality({i \in 1 .. Len(q) : q[i] = p})

\* C30: once Exec has returned, every chunk written to stdout or stderr is in
\* Output exactly once, and Output is as long as Stdout and Stderr together.
C30_OutputCombinesStreams ==
    (epc = "ready" /\ Len(execCalls) >= 1) =>
        /\ Len(res.Output) = Len(res.Stdout) + Len(res.Stderr)
        /\ \A i \in 1 .. Len(res.Stdout) : Occurrences(res.Output, res.Stdout[i]) = 1
        /\ \A i \in 1 .. Len(res.Stderr) : Occurrences(res.Output, res.Stderr[i]) = 1

(***************************************************************************)
(* Extract                                                                 *)
(* An entry name is Path(abs, parts) whose parts may be "..".              *)
(***************************************************************************)
\* how many entries an archive has
MaxEntries == 2

\* filepath.Clean of the parts of a path: ".." removes the element before
\* it; at the start it is dropped from an absolute path and kept in a
\* relative one.
RECURSIVE CleanParts(_, _, _)
CleanParts(abs, done, todo) ==
    IF todo = <<>> THEN done
    ELSE IF Head(todo) # ".." THEN CleanParts(abs, Append(done, Head(todo)), Tail(todo))
    ELSE IF done # <<>> /\ done[Len(done)] # ".."
         THEN CleanParts(abs, SubSeq(done, 1, Len(done) - 1), Tail(todo))
    ELSE IF abs THEN CleanParts(abs, done, Tail(todo))
    ELSE CleanParts(abs, Append(done, ".."), Tail(todo))

\* filepath.Clean
Clean(p) == Path(p.abs, CleanParts(p.abs, <<>>, p.parts))

\* filepath.Join(dst, header.Name): the elements are joined by separators,
\* so a leading "/" of the name is lost, and the result is cleaned.
filepathJoin(d, name) == Clean(Path(d.abs, d.parts \o name.parts))

\* The sequence q starts with the sequence pre.
StartsWith(q, pre) == Len(q) >= Len(pre) /\ SubSeq(q, 1, Len(pre)) = pre

\* The directory traversal check: targetPath has the prefix
\* filepath.Clean(dst) + "/" or is filepath.Clean(dst).  For "/" the prefix
\* is "//", which no clean path has.
validTarget(d, targetPath) ==
    LET c == Clean(d) IN
    \/ targetPath = c
    \/ /\ targetPath.abs = c.abs
       /\ ~IsRoot(c)
       /\ c.parts # <<>>
       /\ Len(targetPath.parts) > Len(c.parts)
       /\ StartsWith(targetPath.parts, c.parts)

\* The destination directories Extract is called with.
Destinations ==
    {Path(TRUE, <<"out">>), Path(TRUE, <<"work", "out">>), Path(TRUE, <<>>),
     Path(FALSE, <<"out">>), Path(FALSE, <<>>), Path(FALSE, <<"..">>)}

\* The working directory of the process that calls Extract.
extractWd == Path(TRUE, <<"srv", "work">>)

\* The names of archive entries.
EntryNames ==
    {Path(FALSE, <<"a">>), Path(FALSE, <<"d", "a">>), Path(FALSE, <<"..", "a">>),
     Path(FALSE, <<"..", "..", "etc", "x">>), Path(TRUE, <<"etc", "passwd">>),
     Path(FALSE, <<"d", "..", "..", "out2", "x">>), Path(FALSE, <<"..", "out", "a">>)}

\* tar.TypeDir, tar.TypeReg and a type Extract skips
EntryTypes == {"TypeDir", "TypeReg", "TypeSymlink"}

Archives ==
    UNION {[1 .. n -> [name : EntryNames, type : EntryTypes]] : n \in 0 .. MaxEntries}

\* Extract(ctx, src, dst) has opened the archive and created dst.
InitExtract ==
    /\ ConfigIdle
    /\ SendIdle
    /\ URLIdle
    /\ BuilderIdle
    /\ ConcIdle
    /\ GitIdle
    /\ ExecIdle
    /\ AtomIdle
    /\ CopyIdle
    /\ dst \in Destinations
    /\ archive \in Archives
    /\ entryIdx = 0
    /\ extracted = {}
    /\ extractErr = "running"

\* tarReader.Next() returns io.EOF: return nil.
ExtractEOF ==
    /\ extractErr = "running"
    /\ entryIdx = Len(archive)
    /\ extractErr' = "nil"
    /\ UNCHANGED <<dst, archive, entryIdx, extracted>>
    /\ UNCHANGED <<appVars, gitVars, execVars, atomVars, copyVars>>

\* One iteration of the loop for the next header.
ExtractEntry ==
    /\ extractErr = "running"
    /\ entryIdx < Len(archive)
    /\ entryIdx' = entryIdx + 1
    /\ LET header == archive[entryIdx + 1]
           targetPath == filepathJoin(dst, header.name)
       IN  IF ~validTarget(dst, targetPath)
           THEN /\ extractErr' = "invalid file path"
                /\ UNCHANGED extracted
           ELSE /\ extracted' = IF header.type \in {"TypeDir", "TypeReg"}
                                THEN extracted \cup {[entry |-> entryIdx + 1, path |-> targetPath]}
                                ELSE extracted
                /\ UNCHANGED extractErr
    /\ UNCHANGED <<dst, archive>>
    /\ UNCHANGED <<appVars, gitVars, execVars, atomVars, copyVars>>

NextExtract ==
    \/ ExtractEOF
    \/ ExtractEntry

SpecExtract == InitExtract /\ [][NextExtract]_vars

\* Where the operating system finds a path: a relative one from the working
\* directory, ".." going to the parent and staying at "/".
Resolved(p) == IF p.abs THEN Clean(p) ELSE Clean(Path(TRUE, extractWd.parts \o p.parts))

\* Where the entry name leads when it is followed from the destination.
Leads(name) == Resolved(Path(dst.abs, dst.parts \o name.parts))

\* The path is the destination directory or below it.
InsideDst(q) == StartsWith(q.parts, Resolved(dst).parts)

\* The entries before entry i all lead into the destination.
FirstOutside(i) ==
    /\ ~InsideDst(Leads(archive[i].name))
    /\ \A j \in 1 .. i - 1 : InsideDst(Leads(archive[j].name))

\* C25: everything Extract creates or writes is inside the destination, and
\* once the loop has reached the first entry that leads outside it Extract
\* has returned the invalid file path error and has taken nothing from that
\* entry or a later one.
C25_NoPathTraversal ==
    /\ \A e \in extracted : InsideDst(Resolved(e.path))
    /\ \A i \in 1 .. Len(archive) :
          (FirstOutside(i) /\ entryIdx >= i) =>
              /\ extractErr = "invalid file path"
              /\ entryIdx = i
              /\ \A e \in extracted : e.entry < i
(***************************************************************************)
(* AtomicWriteFile                                                         *)
(* The directory of the target holds two names: the target and the        *)
(* temporary file os.CreateTemp makes next to it.                          *)
(***************************************************************************)
\* how many chunks a file or a reader holds
MaxChunks == 2

\* the path AtomicWriteFile is called with
TargetPath == "f"

NoFile == [exists |-> FALSE, bytes |-> <<>>]

File(b) == [exists |-> TRUE, bytes |-> b]

Contents == UNION {[1 .. n -> {"x", "y"}] : n \in 0 .. MaxChunks}

tempNameIsPath(path) == path

\* tempFile.Name(): filepath.Base(path) + ".tmp." + a random string, in
\* filepath.Dir(path)
tempName(path) == "f.tmp.1"

InitAtomic ==
    /\ ConfigIdle
    /\ SendIdle
    /\ URLIdle
    /\ BuilderIdle
    /\ ConcIdle
    /\ GitIdle
    /\ ExecIdle
    /\ ExtractIdle
    /\ CopyIdle
    /\ \E before \in {NoFile} \cup {File(b) : b \in Contents}, all \in Contents :
          /\ disk = [n \in {TargetPath, "f.tmp.1"} |-> IF n = TargetPath THEN before ELSE NoFile]
          /\ reader = all
          /\ atomCall = [before |-> before, all |-> all]
    /\ apc = "createTemp"
    /\ atomErr = "running"

\* return err
AtomFail ==
    /\ apc' = "done"
    /\ atomErr' = "error"

\* os.CreateTemp(dir, pattern): the file is opened with O_EXCL, so it is
\* made only under a name that does not exist.
AtomCreateTemp(ok) ==
    /\ apc = "createTemp"
    /\ IF ok /\ ~disk[tempName(TargetPath)].exists
       THEN /\ disk' = [disk EXCEPT ![tempName(TargetPath)] = File(<<>>)]
            /\ apc' = "copy"
            /\ UNCHANGED atomErr
       ELSE /\ AtomFail
            /\ UNCHANGED disk
    /\ UNCHANGED <<reader, atomCall>>
    /\ UNCHANGED <<appVars, gitVars, execVars, extractVars, copyVars>>

\* io.Copy: one Read from the reader and one Write to the temporary file,
\* or the end of the reader.
AtomCopy ==
    /\ apc = "copy"
    /\ IF reader # <<>>
       THEN /\ disk' = [disk EXCEPT ![tempName(TargetPath)] = File(@.bytes \o <<Head(reader)>>)]
            /\ reader' = Tail(reader)
            /\ UNCHANGED apc
       ELSE /\ apc' = "close"
            /\ UNCHANGED <<disk, reader>>
    /\ UNCHANGED <<atomErr, atomCall>>
    /\ UNCHANGED <<appVars, gitVars, execVars, extractVars, copyVars>>

\* io.Copy returns an error of the reader or of the file: the temporary
\* file is closed and the error returned.
AtomCopyFails ==
    /\ apc = "copy"
    /\ AtomFail
    /\ UNCHANGED <<disk, reader, atomCall>>
    /\ UNCHANGED <<appVars, gitVars, execVars, extractVars, copyVars>>

\* tempFile.Close()
AtomClose(ok) ==
    /\ apc = "close"
    /\ IF ok
       THEN /\ apc' = "rename"
            /\ UNCHANGED atomErr
       ELSE AtomFail
    /\ UNCHANGED <<disk, reader, atomCall>>
    /\ UNCHANGED <<appVars, gitVars, execVars, extractVars, copyVars>>

\* os.Rename(tempFile.Name(), path): in one step the target name refers to
\* the temporary file's content and the temporary name is gone.
AtomRename(ok) ==
    /\ apc = "rename"
    /\ IF ok
       THEN /\ disk' = [n \in DOMAIN disk |->
                          IF n = TargetPath THEN disk[tempName(TargetPath)]
                          ELSE IF n = tempName(TargetPath) THEN NoFile
                          ELSE disk[n]]
            /\ apc' = "done"
            /\ atomErr' = "nil"
       ELSE /\ AtomFail
            /\ UNCHANGED disk
    /\ UNCHANGED <<reader, atomCall>>
    /\ UNCHANGED <<appVars, gitVars, execVars, extractVars, copyVars>>

NextAtomic ==
    \/ \E ok \in BOOLEAN : AtomCreateTemp(ok)
    \/ AtomCopy
    \/ AtomCopyFails
    \/ \E ok \in BOOLEAN : AtomClose(ok)
    \/ \E ok \in BOOLEAN : AtomRename(ok)

SpecAtomic == InitAtomic /\ [][NextAtomic]_vars

\* C22: at every moment of AtomicWriteFile the target is what it was before
\* the call (a file with its whole content, or no file) or a file with all
\* the reader held; after an error it is what it was before the call, and
\* after a return of nil it is the file with all the reader held.
C22_TargetNeverPartial ==
    /\ disk[TargetPath] \in {atomCall.before, File(atomCall.all)}
    /\ atomErr = "error" => disk[TargetPath] = atomCall.before
    /\ atomErr = "nil" => disk[TargetPath] = File(atomCall.all)

\* A target of one chunk was replaced by two other chunks.
C22_Witness ==
    /\ atomErr = "nil"
    /\ atomCall.before = File(<<"x">>)
    /\ disk[TargetPath] = File(<<"y", "y">>)

(***************************************************************************)
(* CopyFile and MoveFile                                                   *)
(* Two file names; src and dst are any two of them, the same name twice    *)
(* included.                                                               *)
(***************************************************************************)
FileNames == {"a", "b"}

Modes == {"0644", "0755"}

NoRegular == [exists |-> FALSE, bytes |-> <<>>, mode |-> "none"]

Regular(b, m) == [exists |-> TRUE, bytes |-> b, mode |-> m]

Stores == [FileNames -> {NoRegular} \cup {Regular(b, m) : b \in Contents, m \in Modes}]

\* os.Create(name): a file that exists is truncated and keeps its mode, one
\* that does not exist is made empty.
Create(st, name) ==
    [st EXCEPT ![name] = IF @.exists THEN Regular(<<>>, @.mode) ELSE Regular(<<>>, "0644")]

\* CopyFile(src, dst) or MoveFile(src, dst) is called.
InitCopy ==
    /\ ConfigIdle
    /\ SendIdle
    /\ URLIdle
    /\ BuilderIdle
    /\ ConcIdle
    /\ GitIdle
    /\ ExecIdle
    /\ ExtractIdle
    /\ AtomIdle
    /\ files \in Stores
    /\ \E src \in FileNames, to \in FileNames, move \in BOOLEAN :
          cpCall = [src |-> src, dst |-> to, move |-> move, before |-> files]
    /\ cppc = "open"
    /\ srcOff = 0
    /\ copyErr = "running"

\* return err
CopyFail ==
    /\ cppc' = "done"
    /\ copyErr' = "error"

\* os.MkdirAll(filepath.Dir(dst)) and os.Open(src)
CopyOpen(ok) ==
    /\ cppc = "open"
    /\ IF ok /\ files[cpCall.src].exists
       THEN /\ cppc' = "create"
            /\ UNCHANGED copyErr
       ELSE CopyFail
    /\ UNCHANGED <<files, cpCall, srcOff>>
    /\ UNCHANGED <<appVars, gitVars, execVars, extractVars, atomVars>>

\* os.Create(dst)
CopyCreate(ok) ==
    /\ cppc = "create"
    /\ IF ok
       THEN /\ files' = Create(files, cpCall.dst)
            /\ cppc' = "copy"
            /\ UNCHANGED copyErr
       ELSE /\ CopyFail
            /\ UNCHANGED files
    /\ UNCHANGED <<cpCall, srcOff>>
    /\ UNCHANGED <<appVars, gitVars, execVars, extractVars, atomVars>>

\* io.Copy(dstFile, srcFile): one Read at srcFile's offset of what the file
\* src names holds now, and one Write at the end of dst; or the end of src.
CopyChunk ==
    /\ cppc = "copy"
    /\ IF srcOff < Len(files[cpCall.src].bytes)
       THEN /\ files' = [files EXCEPT ![cpCall.dst].bytes =
                                         Append(@, files[cpCall.src].bytes[srcOff + 1])]
            /\ srcOff' = srcOff + 1
            /\ UNCHANGED cppc
       ELSE /\ cppc' = "chmod"
            /\ UNCHANGED <<files, srcOff>>
    /\ UNCHANGED <<cpCall, copyErr>>
    /\ UNCHANGED <<appVars, gitVars, execVars, extractVars, atomVars>>

\* io.Copy returns an error.
CopyChunkFails ==
    /\ cppc = "copy"
    /\ CopyFail
    /\ UNCHANGED <<files, cpCall, srcOff>>
    /\ UNCHANGED <<appVars, gitVars, execVars, extractVars, atomVars>>

\* os.Stat(src) and os.Chmod(dst, srcInfo.Mode()); CopyFile returns, and
\* MoveFile goes on when CopyFile returned nil.
CopyChmod(ok) ==
    /\ cppc = "chmod"
    /\ IF ok
       THEN /\ files' = [files EXCEPT ![cpCall.dst].mode = files[cpCall.src].mode]
            /\ IF cpCall.move
               THEN /\ cppc' = "remove"
                    /\ UNCHANGED copyErr
               ELSE /\ cppc' = "done"
                    /\ copyErr' = "nil"
       ELSE /\ CopyFail
            /\ UNCHANGED files
    /\ UNCHANGED <<cpCall, srcOff>>
    /\ UNCHANGED <<appVars, gitVars, execVars, extractVars, atomVars>>

\* MoveFile: return os.Remove(src)
MoveRemove(ok) ==
    /\ cppc = "remove"
    /\ cppc' = "done"
    /\ IF ok
       THEN /\ files' = [files EXCEPT ![cpCall.src] = NoRegular]
            /\ copyErr' = "nil"
       ELSE /\ copyErr' = "error"
            /\ UNCHANGED files
    /\ UNCHANGED <<cpCall, srcOff>>
    /\ UNCHANGED <<appVars, gitVars, execVars, extractVars, atomVars>>

NextCopy ==
    \/ \E ok \in BOOLEAN : CopyOpen(ok)
    \/ \E ok \in BOOLEAN : CopyCreate(ok)
    \/ CopyChunk
    \/ CopyChunkFails
    \/ \E ok \in BOOLEAN : CopyChmod(ok)
    \/ \E ok \in BOOLEAN : MoveRemove(ok)

SpecCopy == InitCopy /\ [][NextCopy]_vars

\* C28: when CopyFile or MoveFile has returned nil, dst is a file with the
\* content src had before the call, and after CopyFile src is the file it
\* was before the call; this for every src and dst, dst = src included.
C28_CopyKeepsContent ==
    copyErr = "nil" =>
        /\ files[cpCall.dst].exists
        /\ files[cpCall.dst].bytes = cpCall.before[cpCall.src].bytes
        /\ ~cpCall.move => files[cpCall.src] = cpCall.before[cpCall.src]

====
